---------------------------- MODULE Spec2Model ----------------------------
(***************************************************************************)
(* A model of ccj-to-puz (src/ccj_to_puz/ccj_parse.py and commonccj.py):   *)
(* the grid numbering, the resolution of clue-number labels, the text      *)
(* decoder, and the decode / encode pair read_from_ccj, write_to_puz_file. *)
(*                                                                         *)
(* The program is Python 2 (commonccj.py uses the Python 2 raise and print *)
(* statements), so a dict's values() is a list taken when it is called and *)
(* a dict of ints is walked in the order of its hash table's slots.        *)
(*                                                                         *)
(* Strings are sequences of one-character strings, decoded text is a       *)
(* sequence of code points, an exception is a result whose ok is FALSE.    *)
(***************************************************************************)
EXTENDS Integers, Sequences, FiniteSets, TLC

VARIABLES
    pc,                 \* where the program is
    width, height,      \* Grid.width, Grid.height
    cells,              \* Grid.cells: <<y, x>> -> the cell's letter, or NoCell
    clue_numbers,       \* Grid.clue_numbers: number -> [across, down, x, y]
    in_across,          \* clue_number_string_to_duple: argument in_across
    clue_number_string, \* the token (or the whole label) being resolved
    duple,              \* clue_number_string_to_duple: what it returned or raised
    clue,               \* the ParsedClue that set_number acts on
    bytes_to_decode,    \* decode_bytes: its argument
    decoded,            \* decode_bytes: what it returned or raised
    across_clues,       \* ParsedCCJ.across_clues (a ListOfClues)
    down_clues,         \* ParsedCCJ.down_clues (a ListOfClues)
    clue_groups,        \* write_to_puz_file: its clue_groups when it last ended
    outputs,            \* what each write_to_puz_file call so far wrote or raised
    data,               \* the buffer: d of read_from_ccj, data of read_string
    start_index,        \* read_string: argument start_index
    string_read,        \* read_string: what it returned or raised
    passes,             \* read_from_ccj: the steps of its loops taken so far
    args,               \* the options of main, passed on to read_from_ccj
    raised,             \* the exception that ended read_from_ccj, "" if none
    cursor,             \* read_from_ccj: where its index i stood, step by step
    metadata,           \* ParsedCCJ: title, author, copyright_message, setter,
                        \* puzzle_number
    stdout_encoding     \* sys.stdout.encoding of the run, None if it has none

vars == <<pc, width, height, cells, clue_numbers, in_across, clue_number_string,
          duple, clue, bytes_to_decode, decoded, across_clues, down_clues,
          clue_groups, outputs, data, start_index, string_read, passes, args,
          raised, cursor, metadata, stdout_encoding>>

gridVars == <<width, height, cells, clue_numbers>>
tokenVars == <<in_across, clue_number_string, duple, clue>>
textVars == <<bytes_to_decode, decoded>>
puzzleVars == <<across_clues, down_clues, clue_groups, outputs>>
bufferVars == <<data, start_index, string_read, passes>>
mainVars == <<args, raised, cursor, metadata>>

-----------------------------------------------------------------------------
(* Bounds of the model.                                                    *)

\* The grid specification draws every layout of up to MaxWidth x MaxHeight.
MaxWidth == 3
MaxHeight == 3

\* The number specification draws every string of up to MaxTokenLen characters
\* of TokenAlphabet, and every label of up to MaxTokens tokens of LabelTokens.
MaxTokenLen == 3
MaxTokens == 2

\* The text specification draws every span of up to MaxSpanLen bytes of
\* SpanAlphabet.
MaxSpanLen == 3

\* The puzzle specification reads up to MaxAcrossClues and MaxDownClues clue
\* records and calls write_to_puz_file up to MaxWrites times.
MaxAcrossClues == 2
MaxDownClues == 1
MaxWrites == 2

\* The read_string specification draws every buffer of up to MaxDataLen bytes
\* of ReadAlphabet.
MaxDataLen == 4

-----------------------------------------------------------------------------
(* Grid (commonccj.py).                                                    *)

\* A blocked square: Grid.cells[y][x] is None.
NoCell == "None"

\* Cell.__init__: the letter of a cell that has not been given one.
UnsetLetter == "+"

Coords(w, h) == (0 .. h - 1) \X (0 .. w - 1)

\* The light/block layer as read_from_ccj leaves it: a Cell at every light.
LayoutOf(w, h, lights) ==
    [c \in Coords(w, h) |-> IF c \in lights THEN UnsetLetter ELSE NoCell]

AllLayouts(w, h) == [Coords(w, h) -> {UnsetLetter, NoCell}]

\* set_numbers: the four neighbours, None outside the grid.
CellLeft(cs, w, h, y, x) == IF x >= 1 THEN cs[<<y, x - 1>>] ELSE NoCell
CellRight(cs, w, h, y, x) == IF x < w - 1 THEN cs[<<y, x + 1>>] ELSE NoCell
CellAbove(cs, w, h, y, x) == IF y >= 1 THEN cs[<<y - 1, x>>] ELSE NoCell
CellBelow(cs, w, h, y, x) == IF y < h - 1 THEN cs[<<y + 1, x>>] ELSE NoCell

\* A slip in the across test: the left neighbour is not looked at.
AcrossStartsIgnoringLeft(cs, w, h, y, x) == CellRight(cs, w, h, y, x) # NoCell

\* set_numbers: "if cell_right and not cell_left".
AcrossStartsAt(cs, w, h, y, x) ==
    /\ CellRight(cs, w, h, y, x) # NoCell
    /\ CellLeft(cs, w, h, y, x) = NoCell

\* set_numbers: "if cell_below and not cell_above".
DownStartsAt(cs, w, h, y, x) ==
    /\ CellBelow(cs, w, h, y, x) # NoCell
    /\ CellAbove(cs, w, h, y, x) = NoCell

\* set_numbers from cell k of the row-major scan on, with the numbers given so
\* far and next_number_to_assign.
RECURSIVE SetNumbersFrom(_, _, _, _, _, _)
SetNumbersFrom(cs, w, h, k, nums, next_number_to_assign) ==
    IF k >= w * h THEN nums
    ELSE LET y == k \div w
             x == k % w
             a == AcrossStartsAt(cs, w, h, y, x)
             d == DownStartsAt(cs, w, h, y, x)
         IN  IF cs[<<y, x>>] = NoCell
             THEN SetNumbersFrom(cs, w, h, k + 1, nums, next_number_to_assign)
             ELSE IF a \/ d
             THEN SetNumbersFrom(cs, w, h, k + 1,
                      nums @@ (next_number_to_assign :>
                                   [across |-> a, down |-> d, x |-> x, y |-> y]),
                      next_number_to_assign + 1)
             ELSE SetNumbersFrom(cs, w, h, k + 1, nums, next_number_to_assign)

\* Grid.set_numbers: the clue_numbers table of a layout.
SetNumbers(cs, w, h) == SetNumbersFrom(cs, w, h, 0, << >>, 1)

\* Grid.clue_directions.
ClueDirections(nums, clue_number) ==
    IF clue_number \notin DOMAIN nums THEN << >>
    ELSE (IF nums[clue_number].across THEN <<"A">> ELSE << >>)
         \o (IF nums[clue_number].down THEN <<"D">> ELSE << >>)


\* Three grids of the catalogue the number, label and puzzle specifications
\* draw from.  SampleGrid has 13 entries: 1 starts both, 4 only an across
\* entry, 2 and 12 only a down entry.
SampleGrid ==
    [width |-> 5, height |-> 6,
     cells |-> LayoutOf(5, 6,
        {<<0,1>>, <<0,2>>, <<0,4>>,
         <<1,1>>, <<1,2>>, <<1,3>>, <<1,4>>,
         <<2,0>>, <<2,3>>, <<2,4>>,
         <<3,0>>, <<3,1>>, <<3,2>>, <<3,3>>,
         <<4,1>>, <<4,2>>, <<4,3>>, <<4,4>>,
         <<5,0>>, <<5,2>>, <<5,3>>, <<5,4>>})]

\* The 3 x 3 grid with a light everywhere but the centre.
RingGrid ==
    [width |-> 3, height |-> 3,
     cells |-> LayoutOf(3, 3, Coords(3, 3) \ {<<1, 1>>})]

\* The 2 x 2 grid of four lights: 1 starts both, 2 a down, 3 an across entry.
SquareGrid ==
    [width |-> 2, height |-> 2, cells |-> LayoutOf(2, 2, Coords(2, 2))]

GridCatalogue == {SampleGrid, RingGrid, SquareGrid}

-----------------------------------------------------------------------------
(* Clue numbers (commonccj.py: clue_number_string_to_duple;                *)
(* ccj_parse.py: ParsedClue.set_number).                                   *)

\* The characters of code 32 (space) to 126 (~), in order; the double quote,
\* the backslash and the backquote go by the names of their codes.
Printable ==
    << " ", "!", "U+34", "#", "$", "%", "&", "'", "(", ")", "*", "+",
       ",", "-", ".", "/", "0", "1", "2", "3", "4", "5", "6", "7",
       "8", "9", ":", ";", "<", "=", ">", "?", "@", "A", "B", "C",
       "D", "E", "F", "G", "H", "I", "J", "K", "L", "M", "N", "O",
       "P", "Q", "R", "S", "T", "U", "V", "W", "X", "Y", "Z", "[",
       "U+92", "]", "^", "_", "U+96", "a", "b", "c", "d", "e", "f", "g",
       "h", "i", "j", "k", "l", "m", "n", "o", "p", "q", "r", "s",
       "t", "u", "v", "w", "x", "y", "z", "{", "|", "}", "~" >>

\* The character of a code point, as the strings of this model hold it: the
\* character itself if it is printable ASCII, a name made of its code if not.
Chr(cp) == IF cp \in 32 .. 126 THEN Printable[cp - 31] ELSE "U+" \o ToString(cp)

\* The characters of code 0 to 127: what the ascii codec encodes.
AsciiChars == {Chr(cp) : cp \in 0 .. 127}

\* A unicode string that the implicit ascii encoding of Python 2 accepts.
IsAscii(s) == \A k \in 1 .. Len(s) : s[k] \in AsciiChars

\* An attribute that is None.
None == <<"None">>

\* sys.stdout.encoding: a name when the interpreter found one (a terminal or
\* PYTHONIOENCODING), None when standard output is a pipe or a file.
Utf8 == <<"U", "T", "F", "-", "8">>
StdoutEncodings == {Utf8, None}

\* UnicodeEncodeError('ascii', ...): a unicode string with a character above
\* U+007F met where Python 2 wants a byte string.
UnicodeEncodeError == "UnicodeEncodeError"

\* print(..., s) of a unicode string: the file encodes it with its encoding,
\* with ascii if it has none.
Printed(s) == stdout_encoding # None \/ IsAscii(s)

DigitChars == <<"0", "1", "2", "3", "4", "5", "6", "7", "8", "9">>

\* \d of the pattern.
IsDigit(c) == \E i \in 1 .. 10 : DigitChars[i] = c

DigitValue(c) == (CHOOSE i \in 1 .. 10 : DigitChars[i] = c) - 1

\* int(m.group(1), 10)
RECURSIVE DecimalValue(_)
DecimalValue(digits) ==
    IF digits = << >> THEN 0
    ELSE 10 * DecimalValue(SubSeq(digits, 1, Len(digits) - 1))
         + DigitValue(digits[Len(digits)])

\* str(n) of a clue number.
RECURSIVE Str(_)
Str(n) ==
    IF n < 10 THEN <<DigitChars[n + 1]>>
    ELSE Str(n \div 10) \o <<DigitChars[(n % 10) + 1]>>

\* re.search: the position of the first digit of s at or after i, 0 if none.
RECURSIVE FirstDigitFrom(_, _)
FirstDigitFrom(s, i) ==
    IF i > Len(s) THEN 0
    ELSE IF IsDigit(s[i]) THEN i
    ELSE FirstDigitFrom(s, i + 1)

\* The first position at or after i whose character is not in the class
\* (Len(s) + 1 if the run reaches the end): a greedy \d+ or " *".
RECURSIVE RunEnd(_, _, _)
RunEnd(s, i, class) ==
    IF i > Len(s) \/ s[i] \notin class THEN i
    ELSE RunEnd(s, i + 1, class)

DigitClass == {DigitChars[i] : i \in 1 .. 10}

\* (A|D) under the (?i) flag.
AcrossLetters == {"A", "a"}
DownLetters == {"D", "d"}

\* What a call returns or raises; the fields a case does not use are fixed.
Duple(n, across) == [ok |-> TRUE, n |-> n, across |-> across, err |-> ""]
Raised(err) == [ok |-> FALSE, n |-> 0, across |-> FALSE, err |-> err]

\* raise Exception, "No clue directions found for clue number ..."
NoSuchClueNumberError == "NoSuchClueNumberError"
\* raise Exception("Couldn't parse clue number string: ...")
ClueNumberParseError == "ClueNumberParseError"

\* The else branch of the match test: message.format(clue_number_string) is
\* str.format with a unicode argument, which encodes it as ascii before the
\* Exception is built.
CouldNotParse(s) ==
    IF IsAscii(s) THEN Raised(ClueNumberParseError) ELSE Raised(UnicodeEncodeError)

\* A slip: the section's direction wins over the grid's single direction.
DirectionFromGridSectionFirst(section_across, n, nums) ==
    IF Len(ClueDirections(nums, n)) = 0 THEN Raised(NoSuchClueNumberError)
    ELSE Duple(n, section_across)

\* The else branch of clue_number_string_to_duple: no direction letter, so the
\* grid decides, and the section only when the number starts both.
DirectionFromGrid(section_across, n, nums) ==
    LET directions == ClueDirections(nums, n)
    IN  IF Len(directions) = 0 THEN Raised(NoSuchClueNumberError)
        ELSE IF Len(directions) = 1 THEN Duple(n, directions[1] = "A")
        ELSE Duple(n, section_across)

\* A slip: the direction letter is believed only when the grid has no say.
ClueNumberStringToDupleGridFirst(section_across, s, nums) ==
    LET first == FirstDigitFrom(s, 1)
        after == RunEnd(s, first, DigitClass)
        n == DecimalValue(SubSeq(s, first, after - 1))
        letter == RunEnd(s, after, {" "})
    IN  IF first = 0 THEN CouldNotParse(s)
        ELSE IF Len(ClueDirections(nums, n)) = 1
        THEN DirectionFromGrid(section_across, n, nums)
        ELSE IF letter <= Len(s) /\ s[letter] \in AcrossLetters \cup DownLetters
        THEN Duple(n, s[letter] \in AcrossLetters)
        ELSE DirectionFromGrid(section_across, n, nums)

\* A slip: the pattern is matched at the start of the string only (re.match).
ClueNumberStringToDupleAnchored(section_across, s, nums) ==
    LET after == RunEnd(s, 1, DigitClass)
        n == DecimalValue(SubSeq(s, 1, after - 1))
        letter == RunEnd(s, after, {" "})
    IN  IF after = 1 THEN CouldNotParse(s)
        ELSE IF letter <= Len(s) /\ s[letter] \in AcrossLetters \cup DownLetters
        THEN Duple(n, s[letter] \in AcrossLetters)
        ELSE DirectionFromGrid(section_across, n, nums)

\* clue_number_string_to_duple(in_across, clue_number_string, grid): the
\* leftmost match of (\d+) *(A|D)? in the string.
ClueNumberStringToDuple(section_across, s, nums) ==
    LET first == FirstDigitFrom(s, 1)
        after == RunEnd(s, first, DigitClass)
        n == DecimalValue(SubSeq(s, first, after - 1))
        letter == RunEnd(s, after, {" "})
    IN  IF first = 0 THEN CouldNotParse(s)
        ELSE IF letter <= Len(s) /\ s[letter] \in AcrossLetters \cup DownLetters
        THEN Duple(n, s[letter] \in AcrossLetters)
        ELSE DirectionFromGrid(section_across, n, nums)

\* re.split(r'[,/]', s), the piece in progress being cur.
RECURSIVE SplitFrom(_, _, _)
SplitFrom(s, i, cur) ==
    IF i > Len(s) THEN <<cur>>
    ELSE IF s[i] \in {",", "/"} THEN <<cur>> \o SplitFrom(s, i + 1, << >>)
    ELSE SplitFrom(s, i + 1, Append(cur, s[i]))

SplitLabel(s) == SplitFrom(s, 1, << >>)

\* A slip: only the first token of the label is resolved.
ResolveFirstOnly(section_across, tokens, nums) ==
    LET r == ClueNumberStringToDuple(section_across, tokens[1], nums)
    IN  IF r.ok THEN [ok |-> TRUE, all |-> <<<<r.n, r.across>>>>, err |-> ""]
        ELSE [ok |-> FALSE, all |-> << >>, err |-> r.err]

\* The list comprehension of set_number: the tokens in order, the first
\* exception ending it.
RECURSIVE ResolveAll(_, _, _)
ResolveAll(section_across, tokens, nums) ==
    IF tokens = << >> THEN [ok |-> TRUE, all |-> << >>, err |-> ""]
    ELSE LET r == ClueNumberStringToDuple(section_across, tokens[1], nums)
             rest == ResolveAll(section_across, Tail(tokens), nums)
         IN  IF ~r.ok THEN [ok |-> FALSE, all |-> << >>, err |-> r.err]
             ELSE IF ~rest.ok THEN rest
             ELSE [ok |-> TRUE, all |-> <<<<r.n, r.across>>>> \o rest.all,
                   err |-> ""]

\* ParsedClue.__init__ followed by "clue.across = ..." (every caller sets the
\* direction before set_number, so its None test never fires).
NewClue(section_across) ==
    [across |-> section_across, number_string |-> None,
     all_clue_numbers |-> << >>, text_including_enumeration |-> None,
     raised |-> ""]

\* ParsedClue.set_number: the label is printed, then number_string is
\* assigned, all_clue_numbers only if no token raises.
SetNumber(c, s, nums) ==
    LET r == ResolveAll(c.across, SplitLabel(s), nums)
    IN  IF ~Printed(s) THEN [c EXCEPT !.raised = UnicodeEncodeError]
        ELSE IF r.ok
        THEN [c EXCEPT !.number_string = s, !.all_clue_numbers = r.all]
        ELSE [c EXCEPT !.number_string = s, !.raised = r.err]

-----------------------------------------------------------------------------
(* The values the variables of a part hold while another part is checked.  *)

GridIdle ==
    /\ width = 0
    /\ height = 0
    /\ cells = << >>
    /\ clue_numbers = << >>

NumberIdle ==
    /\ in_across = FALSE
    /\ clue_number_string = << >>
    /\ duple = Raised("")
    /\ clue = NewClue(FALSE)

TextIdle ==
    /\ bytes_to_decode = << >>
    /\ decoded = << >>

PuzzleIdle ==
    /\ across_clues = << >>
    /\ down_clues = << >>
    /\ clue_groups = << >>
    /\ outputs = << >>

BufferIdle ==
    /\ data = << >>
    /\ start_index = 0
    /\ string_read = << >>
    /\ passes = 0

MainIdle ==
    /\ args = << >>
    /\ raised = ""
    /\ cursor = << >>
    /\ metadata = << >>

-----------------------------------------------------------------------------
(* Grid numbering: Grid(width, height), the light/block layer, set_numbers.*)

\* Grid.__init__: every cell None.
InitGrid ==
    /\ pc = "grid_new"
    /\ stdout_encoding = Utf8
    /\ width \in 0 .. MaxWidth
    /\ height \in 0 .. MaxHeight
    /\ cells = LayoutOf(width, height, {})
    /\ clue_numbers = << >>
    /\ NumberIdle /\ TextIdle /\ PuzzleIdle /\ BufferIdle /\ MainIdle

\* read_from_ccj, the light/block layer: a Cell wherever the byte is '?' or 'M'.
LoadLayer ==
    /\ pc = "grid_new"
    /\ cells' \in AllLayouts(width, height)
    /\ pc' = "grid_layer"
    /\ UNCHANGED <<width, height, clue_numbers, tokenVars, textVars, stdout_encoding, puzzleVars,
                   bufferVars, mainVars>>

\* self.grid.set_numbers()
GridSetNumbers ==
    /\ pc = "grid_layer"
    /\ clue_numbers' = SetNumbers(cells, width, height)
    /\ pc' = "grid_numbered"
    /\ UNCHANGED <<width, height, cells, tokenVars, textVars, stdout_encoding, puzzleVars,
                   bufferVars, mainVars>>

NextGrid == LoadLayer \/ GridSetNumbers

SpecGrid == InitGrid /\ [][NextGrid]_vars

\* The definitions of section 3 of the specification, on the grid held.
Present(y, x) ==
    /\ x \in 0 .. width - 1
    /\ y \in 0 .. height - 1
    /\ cells[<<y, x>>] # NoCell

StartsAcross(y, x) == Present(y, x) /\ ~Present(y, x - 1) /\ Present(y, x + 1)

StartsDown(y, x) == Present(y, x) /\ ~Present(y - 1, x) /\ Present(y + 1, x)

NumberAt(y, x) ==
    {n \in DOMAIN clue_numbers : clue_numbers[n].x = x /\ clue_numbers[n].y = y}

\* C3: after set_numbers, a cell has a number exactly when it is present and
\* starts an across or a down entry; the across and down flags of a number are
\* those two predicates at its cell; a cell has at most one number; and the
\* numbers are 1, 2, 3, ... increasing in row-major scan order.
C3_NumberingFollowsTopology ==
    pc = "grid_numbered" =>
        /\ \A c \in Coords(width, height) :
               (NumberAt(c[1], c[2]) # {})
                   <=> (StartsAcross(c[1], c[2]) \/ StartsDown(c[1], c[2]))
        /\ \A c \in Coords(width, height) : Cardinality(NumberAt(c[1], c[2])) <= 1
        /\ \A n \in DOMAIN clue_numbers :
               /\ <<clue_numbers[n].y, clue_numbers[n].x>> \in Coords(width, height)
               /\ clue_numbers[n].across
                      = StartsAcross(clue_numbers[n].y, clue_numbers[n].x)
               /\ clue_numbers[n].down
                      = StartsDown(clue_numbers[n].y, clue_numbers[n].x)
        /\ DOMAIN clue_numbers = 1 .. Cardinality(DOMAIN clue_numbers)
        /\ \A n, m \in DOMAIN clue_numbers :
               n < m => clue_numbers[n].y * width + clue_numbers[n].x
                            < clue_numbers[m].y * width + clue_numbers[m].x

\* A numbered 3 x 3 grid in which one cell starts both an across and a down
\* entry under one number and later cells get later numbers.
C3_Witness ==
    /\ pc = "grid_numbered"
    /\ width = 3 /\ height = 3
    /\ \E n \in DOMAIN clue_numbers : clue_numbers[n].across /\ clue_numbers[n].down
    /\ Cardinality(DOMAIN clue_numbers) >= 3
    /\ \E c \in Coords(width, height) : cells[c] = NoCell

RingNumbered ==
    /\ pc = "grid_numbered"
    /\ width = RingGrid.width /\ height = RingGrid.height
    /\ cells = RingGrid.cells

\* C4 as stated: in the 3 x 3 grid with every cell a light but the centre,
\* 1 is at (0,0) and starts both directions, 2 is at (0,1) and starts an across
\* entry, 3 is at (0,2); (a,b) read as (row, column) or as (x, y).
C4_AsStated ==
    RingNumbered =>
        /\ {1, 2, 3} \subseteq DOMAIN clue_numbers
        /\ clue_numbers[1] = [across |-> TRUE, down |-> TRUE, x |-> 0, y |-> 0]
        /\ clue_numbers[2].across
        /\ \/ clue_numbers[2].y = 0 /\ clue_numbers[2].x = 1
           \/ clue_numbers[2].x = 0 /\ clue_numbers[2].y = 1
        /\ \/ clue_numbers[3].y = 0 /\ clue_numbers[3].x = 2
           \/ clue_numbers[3].x = 0 /\ clue_numbers[3].y = 2

\* C4, amended: in that grid 1 is at row 0, column 0 and starts both
\* directions, 2 is at row 0, column 2 and starts a down entry only, 3 is at
\* row 2, column 0 and starts an across entry only, and there is no other
\* number (the cell at row 0, column 1 has a light on its left and a block
\* below it, so it starts nothing).
C4_RingNumbering ==
    RingNumbered =>
        /\ DOMAIN clue_numbers = {1, 2, 3}
        /\ clue_numbers[1] = [across |-> TRUE, down |-> TRUE, x |-> 0, y |-> 0]
        /\ clue_numbers[2] = [across |-> FALSE, down |-> TRUE, x |-> 2, y |-> 0]
        /\ clue_numbers[3] = [across |-> TRUE, down |-> FALSE, x |-> 0, y |-> 2]

C4_Witness == RingNumbered /\ 3 \in DOMAIN clue_numbers

-----------------------------------------------------------------------------
(* Clue numbers: clue_number_string_to_duple and set_number on a numbered  *)
(* grid.                                                                   *)

\* "U+200" is a capital E with a grave accent, a character above U+007F.
TokenAlphabet == {"1", "2", "A", "a", "D", "d", " ", "x", "U+200"}

SeqsUpTo(S, n) == UNION {[1 .. k -> S] : k \in 0 .. n}

TokenStrings == SeqsUpTo(TokenAlphabet, MaxTokenLen)

LabelTokens ==
    {Str(n) \o suffix : n \in {1, 4, 12}, suffix \in {<< >>, <<"A">>, <<"D">>}}
        \cup {<< >>}

RECURSIVE LabelsOf(_)
LabelsOf(k) ==
    IF k <= 1 THEN LabelTokens
    ELSE {l \o <<sep>> \o t :
              l \in LabelsOf(k - 1), sep \in {"/", ","}, t \in LabelTokens}

LabelStrings == UNION {LabelsOf(k) : k \in 1 .. MaxTokens}

\* A grid of the catalogue after set_numbers, a section direction, a string.
InitNumber ==
    /\ pc = "number_args"
    /\ stdout_encoding \in StdoutEncodings
    /\ \E g \in GridCatalogue :
           /\ width = g.width
           /\ height = g.height
           /\ cells = g.cells
           /\ clue_numbers = SetNumbers(g.cells, g.width, g.height)
    /\ in_across \in BOOLEAN
    /\ clue_number_string \in TokenStrings \cup LabelStrings
    /\ duple = Raised("")
    /\ clue = NewClue(in_across)
    /\ TextIdle /\ PuzzleIdle /\ BufferIdle /\ MainIdle

\* clue_number_string_to_duple(in_across, clue_number_string, grid)
ResolveToken ==
    /\ pc = "number_args"
    /\ duple' = ClueNumberStringToDuple(in_across, clue_number_string, clue_numbers)
    /\ pc' = "token_resolved"
    /\ UNCHANGED <<gridVars, in_across, clue_number_string, clue, textVars, stdout_encoding,
                   puzzleVars, bufferVars, mainVars>>

\* clue.set_number(clue_number_string, grid)
CallSetNumber ==
    /\ pc = "number_args"
    /\ clue' = SetNumber(clue, clue_number_string, clue_numbers)
    /\ pc' = "label_resolved"
    /\ UNCHANGED <<gridVars, in_across, clue_number_string, duple, textVars, stdout_encoding,
                   puzzleVars, bufferVars, mainVars>>

NextNumber == ResolveToken \/ CallSetNumber

SpecNumber == InitNumber /\ [][NextNumber]_vars

AllDigits(s) == s # << >> /\ \A i \in 1 .. Len(s) : IsDigit(s[i])

\* The grid's numbering table, read by number.
EntryAcross(n) == n \in DOMAIN clue_numbers /\ clue_numbers[n].across
EntryDown(n) == n \in DOMAIN clue_numbers /\ clue_numbers[n].down

\* C5: a token that is digits followed by a direction letter resolves to that
\* number and that direction (A or a: across, D or d: down) in every grid, also
\* one without the number, and under either section direction.
C5_LetterIsAuthoritative ==
    pc = "token_resolved" =>
        LET s == clue_number_string
            digits == SubSeq(s, 1, Len(s) - 1)
        IN  (Len(s) >= 2 /\ AllDigits(digits)
                 /\ s[Len(s)] \in AcrossLetters \cup DownLetters)
                => /\ duple.ok
                   /\ duple.n = DecimalValue(digits)
                   /\ duple.across = (s[Len(s)] \in AcrossLetters)

\* "12A" in the down section of a grid that has no entry 12.
C5_Witness ==
    /\ pc = "token_resolved"
    /\ clue_number_string = <<"1", "2", "A">>
    /\ ~in_across
    /\ 12 \notin DOMAIN clue_numbers
    /\ duple = Duple(12, TRUE)

\* C6: a token that is only digits is resolved from the numbering table: a
\* number that starts no entry raises NoSuchClueNumberError, a number that
\* starts one of across and down gets that direction whatever the section, and
\* a number that starts both gets the section's direction.
C6_GridDecidesBareNumber ==
    pc = "token_resolved" =>
        LET s == clue_number_string
            n == DecimalValue(s)
        IN  AllDigits(s) =>
                /\ (~EntryAcross(n) /\ ~EntryDown(n))
                       => duple = Raised(NoSuchClueNumberError)
                /\ (EntryAcross(n) /\ ~EntryDown(n)) => duple = Duple(n, TRUE)
                /\ (~EntryAcross(n) /\ EntryDown(n)) => duple = Duple(n, FALSE)
                /\ (EntryAcross(n) /\ EntryDown(n)) => duple = Duple(n, in_across)

\* "12" in the across section of the grid where 12 starts only a down entry.
C6_Witness ==
    /\ pc = "token_resolved"
    /\ clue_number_string = <<"1", "2">>
    /\ in_across
    /\ EntryDown(12) /\ ~EntryAcross(12)
    /\ duple = Duple(12, FALSE)

Separators(s) == {i \in 1 .. Len(s) : s[i] \in {",", "/"}}

\* The token of s that starts at position from (1, or one past a separator).
TokenFrom(s, from) ==
    LET next == {i \in Separators(s) : i >= from}
        stop == IF next = {} THEN Len(s) + 1
                ELSE CHOOSE i \in next : \A j \in next : i <= j
    IN  SubSeq(s, from, stop - 1)

\* The start of the k-th token of s.
TokenStart(s, k) ==
    IF k = 1 THEN 1
    ELSE 1 + (CHOOSE i \in Separators(s) :
                  Cardinality({j \in Separators(s) : j < i}) = k - 2)

\* C7: when set_number returns, the reference list has one pair per comma- or
\* slash-separated token of the label, in label order, and the k-th pair is
\* what the k-th token alone resolves to under the clue's section direction.
C7_OnePairPerToken ==
    pc = "label_resolved" /\ clue.raised = "" =>
        LET s == clue_number_string
            all == clue.all_clue_numbers
        IN  /\ clue.number_string = s
            /\ Len(all) = Cardinality(Separators(s)) + 1
            /\ \A k \in 1 .. Len(all) :
                   LET r == ClueNumberStringToDuple(
                                in_across, TokenFrom(s, TokenStart(s, k)),
                                clue_numbers)
                   IN  r.ok /\ all[k] = <<r.n, r.across>>

\* "4/12" in the across section, 4 across-only and 12 down-only.
C7_Witness ==
    /\ pc = "label_resolved"
    /\ clue_number_string = <<"4", "/", "1", "2">>
    /\ in_across
    /\ EntryAcross(4) /\ ~EntryDown(4) /\ EntryDown(12) /\ ~EntryAcross(12)
    /\ clue.all_clue_numbers = << <<4, TRUE>>, <<12, FALSE>> >>

\* A token of the form the specification gives: one or more digits, then at
\* most one direction letter.
WellFormedToken(s) ==
    \E k \in 1 .. Len(s) :
        /\ AllDigits(SubSeq(s, 1, k))
        /\ \/ k = Len(s)
           \/ k + 1 = Len(s) /\ s[Len(s)] \in AcrossLetters \cup DownLetters

HasDigit(s) == \E i \in 1 .. Len(s) : IsDigit(s[i])

\* The first run of digits of a token that has one.
FirstDigitRun(s) ==
    LET first == CHOOSE i \in 1 .. Len(s) :
                     IsDigit(s[i]) /\ \A j \in 1 .. i - 1 : ~IsDigit(s[j])
        last == CHOOSE i \in first .. Len(s) :
                    /\ \A j \in first .. i : IsDigit(s[j])
                    /\ i = Len(s) \/ ~IsDigit(s[i + 1])
    IN  SubSeq(s, first, last)

\* C18 as stated: every token that is not digits followed by at most one
\* direction letter is rejected with ClueNumberParseError.
C18_AsStated ==
    (pc = "token_resolved" /\ ~WellFormedToken(clue_number_string))
        => duple = Raised(ClueNumberParseError)

\* C18, amended: the tokens rejected for their form are exactly those that
\* hold no digit, with ClueNumberParseError when they are ascii and with the
\* UnicodeEncodeError of the message's formatting when they are not; a token
\* that holds a digit is read as its first run of digits, text before the run
\* and text after the run (and after the direction letter) being ignored, so
\* it resolves to that number or fails for the grid's lack of it.
C18_OnlyDigitlessRejected ==
    pc = "token_resolved" =>
        /\ (duple = Raised(ClueNumberParseError))
               = (~HasDigit(clue_number_string) /\ IsAscii(clue_number_string))
        /\ (duple = Raised(UnicodeEncodeError))
               = (~HasDigit(clue_number_string) /\ ~IsAscii(clue_number_string))
        /\ HasDigit(clue_number_string) =>
               \/ duple.ok /\ duple.n = DecimalValue(FirstDigitRun(clue_number_string))
               \/ /\ duple = Raised(NoSuchClueNumberError)
                  /\ DecimalValue(FirstDigitRun(clue_number_string))
                         \notin DOMAIN clue_numbers

\* "xA" is rejected: it holds a direction letter but no digit.
C18_Witness ==
    /\ pc = "token_resolved"
    /\ clue_number_string = <<"x", "A">>
    /\ duple = Raised(ClueNumberParseError)

\* "x1D" resolves: text before the digits is skipped.
C18_WitnessLeadingText ==
    /\ pc = "token_resolved"
    /\ clue_number_string = <<"x", "1", "D">>
    /\ duple = Duple(1, FALSE)

\* A capital E with a grave accent alone: no digit, and the message that
\* would say so is never built.
C18_WitnessAccented ==
    /\ pc = "token_resolved"
    /\ clue_number_string = <<"U+200">>
    /\ duple = Raised(UnicodeEncodeError)

\* set_number on "1" and the accented letter with no encoding on standard
\* output: the print raises and number_string is still None.
SetNumberPrintRaised ==
    /\ pc = "label_resolved"
    /\ clue_number_string = <<"1", "U+200">>
    /\ stdout_encoding = None
    /\ clue.raised = UnicodeEncodeError
    /\ clue.number_string = None

\* The same label on a UTF-8 standard output: it resolves to entry 1.
SetNumberPrinted ==
    /\ pc = "label_resolved"
    /\ clue_number_string = <<"1", "U+200">>
    /\ stdout_encoding = Utf8
    /\ clue.raised = ""
    /\ clue.number_string = clue_number_string
    /\ Len(clue.all_clue_numbers) = 1

-----------------------------------------------------------------------------
(* Text (ccj_parse.py: decode_bytes).  A byte is 0 .. 255, a decoded string *)
(* a sequence of Unicode code points.                                      *)

\* "if c not in (0x01, 0x02, 0x03)"
IsToggle(b) == b \in {1, 2, 3}

StripToggles(bs) == SelectSeq(bs, LAMBDA b : ~IsToggle(b))

IsContinuation(b) == b \in 128 .. 191

Decoded(text) == [ok |-> TRUE, text |-> text, err |-> ""]
NotDecoded(err) == [ok |-> FALSE, text |-> << >>, err |-> err]

\* bytes.decode('utf_8'), strict, as Python 2 does it (a lead byte 0xED may be
\* followed by any continuation byte); UnicodeDecodeError is ok = FALSE.
RECURSIVE Utf8Decode(_)
Utf8Decode(bs) ==
    IF bs = << >> THEN Decoded(<< >>)
    ELSE LET b1 == bs[1]
             n == IF b1 < 128 THEN 1
                  ELSE IF b1 \in 194 .. 223 THEN 2
                  ELSE IF b1 \in 224 .. 239 THEN 3
                  ELSE IF b1 \in 240 .. 244 THEN 4
                  ELSE 0
             wellFormed ==
                 /\ n >= 1
                 /\ Len(bs) >= n
                 /\ \A i \in 2 .. n : IsContinuation(bs[i])
                 /\ b1 = 224 => bs[2] >= 160
                 /\ b1 = 240 => bs[2] >= 144
                 /\ b1 = 244 => bs[2] <= 143
             cp == IF n = 1 THEN b1
                   ELSE IF n = 2 THEN (b1 - 192) * 64 + (bs[2] - 128)
                   ELSE IF n = 3
                   THEN (b1 - 224) * 4096 + (bs[2] - 128) * 64 + (bs[3] - 128)
                   ELSE (b1 - 240) * 262144 + (bs[2] - 128) * 4096
                        + (bs[3] - 128) * 64 + (bs[4] - 128)
         IN  IF ~wellFormed THEN NotDecoded("UnicodeDecodeError")
             ELSE LET rest == Utf8Decode(SubSeq(bs, n + 1, Len(bs)))
                  IN  IF rest.ok THEN Decoded(<<cp>> \o rest.text) ELSE rest

\* bytes.decode('latin_1'): every byte is its own code point.
Latin1Decode(bs) == Decoded(bs)

\* The bytes cp1252 leaves undefined.
Cp1252Undefined == {129, 141, 143, 144, 157}

\* cp1252: the code points of the bytes 0x80 .. 0x9F (0 where undefined).
Cp1252High ==
    <<8364, 0, 8218, 402, 8222, 8230, 8224, 8225,
      710, 8240, 352, 8249, 338, 0, 381, 0,
      0, 8216, 8217, 8220, 8221, 8226, 8211, 8212,
      732, 8482, 353, 8250, 339, 0, 382, 376>>

\* bytes.decode('cp1252')
Cp1252Decode(bs) ==
    IF \E i \in 1 .. Len(bs) : bs[i] \in Cp1252Undefined
    THEN NotDecoded("UnicodeDecodeError")
    ELSE Decoded([i \in 1 .. Len(bs) |->
                     IF bs[i] \in 128 .. 159 THEN Cp1252High[bs[i] - 127]
                     ELSE bs[i]])

\* \s of a pattern without the UNICODE flag: space, \t, \n, \v, \f, \r.
IsSpace(cp) == cp = 32 \/ cp \in 9 .. 13

\* re.sub(r'\s+', ' ', s)
RECURSIVE CollapseSpace(_)
CollapseSpace(text) ==
    IF text = << >> THEN << >>
    ELSE IF IsSpace(text[1])
    THEN LET i == CHOOSE j \in 2 .. Len(text) + 1 :
                      /\ \A k \in 2 .. j - 1 : IsSpace(text[k])
                      /\ j = Len(text) + 1 \/ ~IsSpace(text[j])
         IN  <<32>> \o CollapseSpace(SubSeq(text, i, Len(text)))
    ELSE <<text[1]>> \o CollapseSpace(Tail(text))

\* unicodedata.category(c) == 'Cc': U+0000 .. U+001F and U+007F .. U+009F.
IsControl(cp) == cp \in 0 .. 31 \/ cp \in 127 .. 159

\* contains_control_characters
ContainsControlCharacters(text) == \E i \in 1 .. Len(text) : IsControl(text[i])

\* raise Exception("Couldn't guess the character set.")
UndecidableEncodingError == "UndecidableEncodingError"

\* for encoding in ('utf_8', 'latin_1', 'cp1252')
Encodings == <<"utf_8", "latin_1", "cp1252">>

DecodeAs(encoding, bs) ==
    IF encoding = "utf_8" THEN Utf8Decode(bs)
    ELSE IF encoding = "latin_1" THEN Latin1Decode(bs)
    ELSE Cp1252Decode(bs)

\* A slip: the first encoding that decodes is returned with what it holds.
TryEncodingsUnchecked(bs, k) ==
    IF DecodeAs(Encodings[k], bs).ok
    THEN Decoded(CollapseSpace(DecodeAs(Encodings[k], bs).text))
    ELSE NotDecoded(UndecidableEncodingError)

\* The loop of decode_bytes from the k-th encoding on.
RECURSIVE TryEncodings(_, _)
TryEncodings(bs, k) ==
    IF k > Len(Encodings) THEN NotDecoded(UndecidableEncodingError)
    ELSE LET d == DecodeAs(Encodings[k], bs)
             t == CollapseSpace(d.text)
         IN  IF d.ok /\ ~ContainsControlCharacters(t) THEN Decoded(t)
             ELSE TryEncodings(bs, k + 1)

\* decode_bytes(bytes_to_decode)
DecodeBytes(bs) == TryEncodings(StripToggles(bs), 1)

\* Toggles, a control byte, tab, newline, space, 'A', DEL, 0x80 (a control
\* character in latin_1, the euro sign in cp1252), 0x81 (undefined in cp1252),
\* 0xC3 0xA9 (e acute in utf_8).
SpanAlphabet == {1, 2, 4, 9, 10, 32, 65, 127, 128, 129, 195, 169}

\* 'Unwis' 02 'e' 01 '?' 01 01 ' (9)', and the euro sign in utf_8.
SampleSpans ==
    { <<85, 110, 119, 105, 115, 2, 101, 1, 63, 1, 1, 32, 40, 57, 41>>,
      <<226, 130, 172>> }

InitText ==
    /\ pc = "text_args"
    /\ stdout_encoding = Utf8
    /\ bytes_to_decode \in SeqsUpTo(SpanAlphabet, MaxSpanLen) \cup SampleSpans
    /\ decoded = NotDecoded("")
    /\ GridIdle /\ NumberIdle /\ PuzzleIdle /\ BufferIdle /\ MainIdle

\* s = decode_bytes(bytes_to_decode)
CallDecodeBytes ==
    /\ pc = "text_args"
    /\ decoded' = DecodeBytes(bytes_to_decode)
    /\ pc' = "text_decoded"
    /\ UNCHANGED <<stdout_encoding, gridVars, tokenVars, bytes_to_decode, puzzleVars, bufferVars,
                   mainVars>>

NextText == CallDecodeBytes

SpecText == InitText /\ [][NextText]_vars

\* What an encoding makes of the span once the toggles are dropped and the
\* whitespace collapsed, and whether that is free of control characters.
Candidate(encoding) == DecodeAs(encoding, StripToggles(bytes_to_decode))

Qualifies(encoding) ==
    /\ Candidate(encoding).ok
    /\ LET t == CollapseSpace(Candidate(encoding).text)
       IN  \A i \in 1 .. Len(t) : t[i] \notin (0 .. 31) \cup (127 .. 159)

\* C8: decode_bytes returns no control character: it returns the text of the
\* first of utf_8, latin_1, cp1252 that decodes the span without its 01, 02,
\* 03 bytes to a text that, whitespace runs collapsed to one space, has no
\* character of category Cc, and raises UndecidableEncodingError when none
\* does; the span 'Unwis' 02 'e' 01 '?' 01 01 ' (9)' gives "Unwise? (9)".
C8_NoControlCharacters ==
    pc = "text_decoded" =>
        /\ decoded.ok =>
               /\ \A i \in 1 .. Len(decoded.text) :
                      decoded.text[i] \notin (0 .. 31) \cup (127 .. 159)
               /\ \A i \in 1 .. Len(decoded.text) - 1 :
                      ~(decoded.text[i] = 32 /\ decoded.text[i + 1] = 32)
               /\ \E k \in 1 .. 3 :
                      /\ Qualifies(Encodings[k])
                      /\ \A j \in 1 .. k - 1 : ~Qualifies(Encodings[j])
                      /\ decoded.text = CollapseSpace(Candidate(Encodings[k]).text)
        /\ ~decoded.ok =>
               /\ decoded.err = UndecidableEncodingError
               /\ \A k \in 1 .. 3 : ~Qualifies(Encodings[k])
        /\ bytes_to_decode
               = <<85, 110, 119, 105, 115, 2, 101, 1, 63, 1, 1, 32, 40, 57, 41>>
               => decoded = Decoded(<<85, 110, 119, 105, 115, 101, 63, 32, 40, 57, 41>>)

\* The example span decoded, its three toggles gone.
C8_Witness ==
    /\ pc = "text_decoded"
    /\ Len(bytes_to_decode) = 15
    /\ \E i \in 1 .. 15 : bytes_to_decode[i] = 2
    /\ decoded.ok
    /\ Len(decoded.text) = 11

\* A span that only cp1252 decodes without a control character.
C8_WitnessCp1252 ==
    /\ pc = "text_decoded"
    /\ bytes_to_decode = <<1, 128, 9>>
    /\ decoded = Decoded(<<8364, 32>>)

-----------------------------------------------------------------------------
(* Reading the buffer (ccj_parse.py: byte_at, read_string).  An index is   *)
(* counted from 0 as Python counts it: the byte at index i of d is d[i+1]. *)

\* What ord(data[i]) raises for an index at or past the end of the buffer.
IndexError == "IndexError"

\* A decoded string, character by character.
Chars(text) == [k \in 1 .. Len(text) |-> Chr(text[k])]

Min(a, b) == IF a <= b THEN a ELSE b

\* byte_at(data, i)
ByteAt(d, i) == d[i + 1]

\* What read_string returned (raised = "") or raised.
StringRead(err, s, i, bytes_for_string) ==
    [raised |-> err, s |-> s, i |-> i, bytes_for_string |-> bytes_for_string]

\* read_string(data, start_index): the length byte, the slice after it (which
\* Python cuts short at the end of the buffer without an error), decode_bytes
\* of the slice, and the index start_index + length + 1.
ReadString(d, i) ==
    IF i >= Len(d) THEN StringRead(IndexError, << >>, i, << >>)
    ELSE LET length == ByteAt(d, i)
             bytes_for_string == SubSeq(d, i + 2, Min(i + length + 1, Len(d)))
             dec == DecodeBytes(bytes_for_string)
         IN  IF dec.ok
             THEN StringRead("", Chars(dec.text), i + length + 1, bytes_for_string)
             ELSE StringRead(dec.err, << >>, i, bytes_for_string)

\* Length bytes 0 to 3, the control byte 4, the letter A.
ReadAlphabet == {0, 1, 2, 3, 4, 65}

InitReadString ==
    /\ pc = "read_args"
    /\ stdout_encoding = Utf8
    /\ data \in SeqsUpTo(ReadAlphabet, MaxDataLen)
    /\ start_index \in 0 .. Len(data)
    /\ string_read = StringRead("", << >>, 0, << >>)
    /\ passes = 0
    /\ GridIdle /\ NumberIdle /\ TextIdle /\ PuzzleIdle /\ MainIdle

\* s, i = read_string(data, start_index)
CallReadString ==
    /\ pc = "read_args"
    /\ string_read' = ReadString(data, start_index)
    /\ pc' = "string_read"
    /\ UNCHANGED <<gridVars, tokenVars, textVars, stdout_encoding, puzzleVars, data, start_index,
                   passes, mainVars>>

NextReadString == CallReadString

SpecReadString == InitReadString /\ [][NextReadString]_vars

\* C19 as stated: read_string returns a span of exactly n bytes, n the length
\* byte, and the index start_index + 1 + n; and with fewer than n bytes after
\* the length byte it fails with an out-of-range error.
C19_AsStated ==
    (pc = "string_read" /\ start_index < Len(data)) =>
        LET n == ByteAt(data, start_index)
        IN  /\ string_read.raised = ""
                   => /\ Len(string_read.bytes_for_string) = n
                      /\ string_read.i = start_index + 1 + n
            /\ Len(data) - (start_index + 1) < n
                   => string_read.raised = IndexError

-----------------------------------------------------------------------------
(* The clue dictionary: a Python 2 dict with int keys.  Its order of        *)
(* iteration is the order of its hash table's slots (hash(n) = n, open     *)
(* addressing, the table of 8 slots grown when two thirds full), which is  *)
(* what values() and deepcopy walk.                                        *)

EmptySlot == -1

\* {}
NewDict ==
    [size |-> 8, slots |-> [i \in 0 .. 7 |-> EmptySlot], items |-> << >>]

\* The slot of key: the probe sequence i -> 5 i + perturb + 1, perturb >> 5.
RECURSIVE ProbeSlot(_, _, _, _)
ProbeSlot(d, key, i, perturb) ==
    IF d.slots[i % d.size] \in {EmptySlot, key} THEN i % d.size
    ELSE ProbeSlot(d, key, 5 * i + perturb + 1, perturb \div 32)

LookupSlot(d, key) == ProbeSlot(d, key, key % d.size, key)

\* "key in d.keys()"
DictHas(d, key) == key \in DOMAIN d.items

\* len(d)
DictLen(d) == Cardinality(DOMAIN d.items)

\* list(d.keys()): the keys in slot order from slot i on.
RECURSIVE KeysFrom(_, _)
KeysFrom(d, i) ==
    IF i >= d.size THEN << >>
    ELSE (IF d.slots[i] = EmptySlot THEN << >> ELSE <<d.slots[i]>>)
         \o KeysFrom(d, i + 1)

DictKeys(d) == KeysFrom(d, 0)

\* d.values(): a list, in the order of the keys.
DictValues(d) == [i \in 1 .. Len(DictKeys(d)) |-> d.items[DictKeys(d)[i]]]

\* A key put in a table that has room, the values left alone.
PlaceKey(d, key) ==
    [d EXCEPT !.slots = [@ EXCEPT ![LookupSlot(d, key)] = key]]

RECURSIVE PlaceKeys(_, _)
PlaceKeys(d, keys) ==
    IF keys = << >> THEN d
    ELSE PlaceKeys(PlaceKey(d, keys[1]), Tail(keys))

RECURSIVE GrownSize(_, _)
GrownSize(size, minused) ==
    IF size > minused THEN size ELSE GrownSize(2 * size, minused)

\* dictresize: a table of the first power of two above minused, refilled in
\* the old slot order.
Resized(d, minused) ==
    LET size == GrownSize(8, minused)
    IN  PlaceKeys([size |-> size,
                   slots |-> [i \in 0 .. size - 1 |-> EmptySlot],
                   items |-> d.items],
                  DictKeys(d))

\* d[key] = value
DictSet(d, key, value) ==
    IF DictHas(d, key) THEN [d EXCEPT !.items[key] = value]
    ELSE LET placed == [PlaceKey(d, key) EXCEPT !.items = (key :> value) @@ @]
         IN  IF DictLen(placed) * 3 >= placed.size * 2
             THEN Resized(placed, 4 * DictLen(placed))
             ELSE placed

\* copy.deepcopy of a dict: a new dict filled in the order of iteration.
RECURSIVE CopyItems(_, _, _)
CopyItems(d, keys, copy) ==
    IF keys = << >> THEN copy
    ELSE CopyItems(d, Tail(keys), DictSet(copy, keys[1], d.items[keys[1]]))

DeepCopyDict(d) == CopyItems(d, DictKeys(d), NewDict)

\* sorted(d.keys())
RECURSIVE SortedSeq(_)
SortedSeq(S) ==
    IF S = {} THEN << >>
    ELSE LET m == CHOOSE x \in S : \A y \in S : x <= y
         IN  <<m>> \o SortedSeq(S \ {m})

\* ListOfClues.ordered_list_of_clues
OrderedListOfClues(list) ==
    LET keys == SortedSeq(DOMAIN list.clue_dictionary.items)
    IN  [i \in 1 .. Len(keys) |-> list.clue_dictionary.items[keys[i]]]

\* ListOfClues.real_number_of_clues
RealNumberOfClues(list) == DictLen(list.clue_dictionary)

-----------------------------------------------------------------------------
(* Decoding (ccj_parse.py: parse_list_of_clues, read_from_ccj), from the   *)
(* clue records of a section on.                                           *)

\* ListOfClues() with its direction and declared count set.
NewListOfClues(section_across, n) ==
    [across |-> section_across, number_of_clues |-> n, clue_dictionary |-> NewDict]

\* The records the loop of parse_list_of_clues reads for a declared count: it
\* tests the count only after a record.
RecordsRead(n) == IF n = 0 THEN 1 ELSE n

\* result.clue_dictionary[clue.all_clue_numbers[0][0]] = clue
StoreClue(list, c) ==
    [list EXCEPT !.clue_dictionary = DictSet(@, c.all_clue_numbers[1][1], c)]

\* The loop of parse_list_of_clues from the i-th record on; a record is its
\* number label and its text.
RECURSIVE ParseRecordsFrom(_, _, _, _)
ParseRecordsFrom(list, records, i, nums) ==
    IF i > Len(records) THEN [raised |-> "", list |-> list]
    ELSE LET c == SetNumber(NewClue(list.across), records[i].number_string, nums)
         IN  IF c.raised # "" THEN [raised |-> c.raised, list |-> list]
             ELSE ParseRecordsFrom(
                      StoreClue(list,
                          [c EXCEPT !.text_including_enumeration = records[i].text]),
                      records, i + 1, nums)

\* parse_list_of_clues, its label classified and its count n read.
ParseListOfClues(section_across, n, records, nums) ==
    ParseRecordsFrom(NewListOfClues(section_across, n), records, 1, nums)

\* The answer layer: every light gets its letter.
WithLetter(cs, letter) ==
    [c \in DOMAIN cs |-> IF cs[c] = NoCell THEN NoCell ELSE letter]

-----------------------------------------------------------------------------
(* Encoding (ccj_parse.py: write_to_puz_file, keyfunc_clues,               *)
(* tidied_text_including_enumeration).                                     *)

\* The byte 0 in a string of characters.
Nul == "NUL"

UpperCase ==
    <<"A", "B", "C", "D", "E", "F", "G", "H", "I", "J", "K", "L", "M",
      "N", "O", "P", "Q", "R", "S", "T", "U", "V", "W", "X", "Y", "Z">>
LowerCase ==
    <<"a", "b", "c", "d", "e", "f", "g", "h", "i", "j", "k", "l", "m",
      "n", "o", "p", "q", "r", "s", "t", "u", "v", "w", "x", "y", "z">>

\* The lower case of a pattern compiled without the UNICODE and LOCALE
\* flags, and of "(?i)": A-Z only.
AsciiLower(c) ==
    IF \E i \in 1 .. 26 : UpperCase[i] = c
    THEN LowerCase[CHOOSE i \in 1 .. 26 : UpperCase[i] = c]
    ELSE c

\* The simple lower-case mapping of the Unicode 5.2 database of Python 2.7,
\* as runs <<first, last, step, offset>>: every step-th code point from
\* first to last has the lower case code point + offset.
LowerRuns ==
    << <<65, 90, 1, 32>>, <<192, 214, 1, 32>>, <<216, 222, 1, 32>>,
       <<256, 302, 2, 1>>, <<304, 304, 1, -199>>, <<306, 310, 2, 1>>,
       <<313, 327, 2, 1>>, <<330, 374, 2, 1>>, <<376, 376, 1, -121>>,
       <<377, 381, 2, 1>>, <<385, 385, 1, 210>>, <<386, 388, 2, 1>>,
       <<390, 390, 1, 206>>, <<391, 391, 1, 1>>, <<393, 394, 1, 205>>,
       <<395, 395, 1, 1>>, <<398, 398, 1, 79>>, <<399, 399, 1, 202>>,
       <<400, 400, 1, 203>>, <<401, 401, 1, 1>>, <<403, 403, 1, 205>>,
       <<404, 404, 1, 207>>, <<406, 406, 1, 211>>, <<407, 407, 1, 209>>,
       <<408, 408, 1, 1>>, <<412, 412, 1, 211>>, <<413, 413, 1, 213>>,
       <<415, 415, 1, 214>>, <<416, 420, 2, 1>>, <<422, 422, 1, 218>>,
       <<423, 423, 1, 1>>, <<425, 425, 1, 218>>, <<428, 428, 1, 1>>,
       <<430, 430, 1, 218>>, <<431, 431, 1, 1>>, <<433, 434, 1, 217>>,
       <<435, 437, 2, 1>>, <<439, 439, 1, 219>>, <<440, 440, 1, 1>>,
       <<444, 444, 1, 1>>, <<452, 452, 1, 2>>, <<453, 453, 1, 1>>,
       <<455, 455, 1, 2>>, <<456, 456, 1, 1>>, <<458, 458, 1, 2>>,
       <<459, 475, 2, 1>>, <<478, 494, 2, 1>>, <<497, 497, 1, 2>>,
       <<498, 500, 2, 1>>, <<502, 502, 1, -97>>, <<503, 503, 1, -56>>,
       <<504, 542, 2, 1>>, <<544, 544, 1, -130>>, <<546, 562, 2, 1>>,
       <<570, 570, 1, 10795>>, <<571, 571, 1, 1>>, <<573, 573, 1, -163>>,
       <<574, 574, 1, 10792>>, <<577, 577, 1, 1>>, <<579, 579, 1, -195>>,
       <<580, 580, 1, 69>>, <<581, 581, 1, 71>>, <<582, 590, 2, 1>>,
       <<880, 882, 2, 1>>, <<886, 886, 1, 1>>, <<902, 902, 1, 38>>,
       <<904, 906, 1, 37>>, <<908, 908, 1, 64>>, <<910, 911, 1, 63>>,
       <<913, 929, 1, 32>>, <<931, 939, 1, 32>>, <<975, 975, 1, 8>>,
       <<984, 1006, 2, 1>>, <<1012, 1012, 1, -60>>, <<1015, 1015, 1, 1>>,
       <<1017, 1017, 1, -7>>, <<1018, 1018, 1, 1>>, <<1021, 1023, 1, -130>>,
       <<1024, 1039, 1, 80>>, <<1040, 1071, 1, 32>>, <<1120, 1152, 2, 1>>,
       <<1162, 1214, 2, 1>>, <<1216, 1216, 1, 15>>, <<1217, 1229, 2, 1>>,
       <<1232, 1316, 2, 1>>, <<1329, 1366, 1, 48>>, <<4256, 4293, 1, 7264>>,
       <<7680, 7828, 2, 1>>, <<7838, 7838, 1, -7615>>, <<7840, 7934, 2, 1>>,
       <<7944, 7951, 1, -8>>, <<7960, 7965, 1, -8>>, <<7976, 7983, 1, -8>>,
       <<7992, 7999, 1, -8>>, <<8008, 8013, 1, -8>>, <<8025, 8031, 2, -8>>,
       <<8040, 8047, 1, -8>>, <<8072, 8079, 1, -8>>, <<8088, 8095, 1, -8>>,
       <<8104, 8111, 1, -8>>, <<8120, 8121, 1, -8>>, <<8122, 8123, 1, -74>>,
       <<8124, 8124, 1, -9>>, <<8136, 8139, 1, -86>>, <<8140, 8140, 1, -9>>,
       <<8152, 8153, 1, -8>>, <<8154, 8155, 1, -100>>, <<8168, 8169, 1, -8>>,
       <<8170, 8171, 1, -112>>, <<8172, 8172, 1, -7>>,
       <<8184, 8185, 1, -128>>, <<8186, 8187, 1, -126>>,
       <<8188, 8188, 1, -9>>, <<8486, 8486, 1, -7517>>,
       <<8490, 8490, 1, -8383>>, <<8491, 8491, 1, -8262>>,
       <<8498, 8498, 1, 28>>, <<8544, 8559, 1, 16>>, <<8579, 8579, 1, 1>>,
       <<9398, 9423, 1, 26>>, <<11264, 11310, 1, 48>>,
       <<11360, 11360, 1, 1>>, <<11362, 11362, 1, -10743>>,
       <<11363, 11363, 1, -3814>>, <<11364, 11364, 1, -10727>>,
       <<11367, 11371, 2, 1>>, <<11373, 11373, 1, -10780>>,
       <<11374, 11374, 1, -10749>>, <<11375, 11375, 1, -10783>>,
       <<11376, 11376, 1, -10782>>, <<11378, 11378, 1, 1>>,
       <<11381, 11381, 1, 1>>, <<11390, 11391, 1, -10815>>,
       <<11392, 11490, 2, 1>>, <<11499, 11501, 2, 1>>,
       <<42560, 42590, 2, 1>>, <<42594, 42604, 2, 1>>,
       <<42624, 42646, 2, 1>>, <<42786, 42798, 2, 1>>,
       <<42802, 42862, 2, 1>>, <<42873, 42875, 2, 1>>,
       <<42877, 42877, 1, -35332>>, <<42878, 42886, 2, 1>>,
       <<42891, 42891, 1, 1>>, <<65313, 65338, 1, 32>>,
       <<66560, 66599, 1, 40>> >>

\* The code points of a run.
RunCodes(r) == {cp \in r[1] .. r[2] : (cp - r[1]) % r[3] = 0}

\* unicode.lower of one character.
Lower(c) ==
    IF c \in AsciiChars THEN AsciiLower(c)
    ELSE IF \E k \in 1 .. Len(LowerRuns) : \E cp \in RunCodes(LowerRuns[k]) : Chr(cp) = c
    THEN LET k == CHOOSE j \in 1 .. Len(LowerRuns) :
                      \E cp \in RunCodes(LowerRuns[j]) : Chr(cp) = c
             cp == CHOOSE q \in RunCodes(LowerRuns[k]) : Chr(q) = c
         IN  Chr(cp + LowerRuns[k][4])
    ELSE c

\* re.sub(r'/', ',', c.number_string).lower()
NumberStringTidied(number_string) ==
    [i \in 1 .. Len(number_string) |->
        IF number_string[i] = "/" THEN "," ELSE Lower(number_string[i])]

\* The characters of [\x00-\x1f].
ControlChars == {Chr(cp) : cp \in 0 .. 31}

\* re.sub(r' *\(', ' (', t): a run of spaces that ends at a '(' becomes one.
RECURSIVE SpaceBeforeParen(_)
SpaceBeforeParen(t) ==
    IF t = << >> THEN << >>
    ELSE LET stop == RunEnd(t, 1, {" "})
         IN  IF stop <= Len(t) /\ t[stop] = "("
             THEN <<" ", "(">> \o SpaceBeforeParen(SubSeq(t, stop + 1, Len(t)))
             ELSE <<t[1]>> \o SpaceBeforeParen(Tail(t))

\* ParsedClue.tidied_text_including_enumeration
TidiedText(c) ==
    SpaceBeforeParen(
        SelectSeq(c.text_including_enumeration, LAMBDA ch : ch \notin ControlChars))

\* A slip: down before across where the numbers are equal.
KeyfuncCluesDownFirst(c) == <<c.all_clue_numbers[1][1], IF c.across THEN 1 ELSE 0>>

\* keyfunc_clues
KeyfuncClues(c) == <<c.all_clue_numbers[1][1], IF c.across THEN 0 ELSE 1>>

KeyLess(k1, k2) == k1[1] < k2[1] \/ (k1[1] = k2[1] /\ k1[2] < k2[2])

\* list.sort(key=keyfunc_clues): stable, by insertion from the left.
RECURSIVE InsertByKey(_, _)
InsertByKey(sorted, c) ==
    IF sorted = << >> THEN <<c>>
    ELSE IF KeyLess(KeyfuncClues(c), KeyfuncClues(sorted[Len(sorted)]))
    THEN Append(InsertByKey(SubSeq(sorted, 1, Len(sorted) - 1), c),
                sorted[Len(sorted)])
    ELSE Append(sorted, c)

RECURSIVE SortClues(_, _)
SortClues(clues, k) ==
    IF k = 0 THEN << >>
    ELSE InsertByKey(SortClues(clues, k - 1), clues[k])

\* The local clue_groups: the two copies, and what reconciliation raised.
GroupDict(groups, across) ==
    IF across THEN groups.a.clue_dictionary ELSE groups.d.clue_dictionary

WithGroupDict(groups, across, d) ==
    IF across THEN [groups EXCEPT !.a.clue_dictionary = d]
    ELSE [groups EXCEPT !.d.clue_dictionary = d]

\* copy.deepcopy(self.across_clues), copy.deepcopy(self.down_clues)
DeepCopyList(list) ==
    [list EXCEPT !.clue_dictionary = DeepCopyDict(@)]

\* A slip: the clue maps of the puzzle themselves are reconciled.
CopiedGroupsShared(across_list, down_list) ==
    [a |-> across_list, d |-> down_list, raised |-> "", shared |-> TRUE]

CopiedGroups(across_list, down_list) ==
    [a |-> DeepCopyList(across_list), d |-> DeepCopyList(down_list),
     raised |-> "", shared |-> FALSE]

\* A slip: the suffix is left out.
SeeTextNoSuffix(c, entry_across, group_across) ==
    <<"S", "e", "e", " ">> \o Str(c.all_clue_numbers[1][1])

\* "See " + first_clue_entry, and the direction of the entry referred to when
\* it is not the direction of the group.
SeeText(c, entry_across, group_across) ==
    <<"S", "e", "e", " ">> \o Str(c.all_clue_numbers[1][1])
        \o (IF entry_across # group_across
            THEN (IF entry_across THEN <<" ", "a", "c", "r", "o", "s", "s">>
                  ELSE <<" ", "d", "o", "w", "n">>)
            ELSE << >>)

\* A slip: the placeholder is stored whether or not the key is taken.
EnsureEntryAlways(groups, group_across, c, k, nums) ==
    LET entry_n == c.all_clue_numbers[k][1]
        entry_across == c.all_clue_numbers[k][2]
        fake_clue ==
            SetNumber([NewClue(entry_across) EXCEPT
                           !.text_including_enumeration =
                               SeeText(c, entry_across, group_across)],
                      Str(entry_n), nums)
    IN  IF fake_clue.raised # "" THEN [groups EXCEPT !.raised = fake_clue.raised]
        ELSE WithGroupDict(groups, entry_across,
                 DictSet(GroupDict(groups, entry_across), entry_n, fake_clue))

\* The body of "for entry_n, entry_across in clue.all_clue_numbers" for the
\* k-th pair of clue c of the group.
EnsureEntry(groups, group_across, c, k, nums) ==
    LET entry_n == c.all_clue_numbers[k][1]
        entry_across == c.all_clue_numbers[k][2]
        expected_dictionary == GroupDict(groups, entry_across)
        fake_clue ==
            SetNumber([NewClue(entry_across) EXCEPT
                           !.text_including_enumeration =
                               SeeText(c, entry_across, group_across)],
                      Str(entry_n), nums)
    IN  IF DictHas(expected_dictionary, entry_n) THEN groups
        ELSE IF fake_clue.raised # ""
        THEN [groups EXCEPT !.raised = fake_clue.raised]
        ELSE WithGroupDict(groups, entry_across,
                 DictSet(expected_dictionary, entry_n, fake_clue))

RECURSIVE ReconcileEntries(_, _, _, _, _)
ReconcileEntries(groups, group_across, c, k, nums) ==
    IF groups.raised # "" \/ k > Len(c.all_clue_numbers) THEN groups
    ELSE ReconcileEntries(EnsureEntry(groups, group_across, c, k, nums),
                          group_across, c, k + 1, nums)

\* "for clue in clue_dictionary.values()": the list values() gave.
RECURSIVE ReconcileClues(_, _, _, _, _)
ReconcileClues(groups, group_across, values, j, nums) ==
    IF groups.raised # "" \/ j > Len(values) THEN groups
    ELSE ReconcileClues(
             ReconcileEntries(groups, group_across, values[j], 1, nums),
             group_across, values, j + 1, nums)

\* "for group_across in (True, False)"
Reconcile(groups, nums) ==
    LET after_across ==
            ReconcileClues(groups, TRUE, DictValues(groups.a.clue_dictionary),
                           1, nums)
    IN  ReconcileClues(after_across, FALSE,
                       DictValues(after_across.d.clue_dictionary), 1, nums)

\* One clue line: "[" + number_string_tidied + "] ", the text, NUL.
ClueLine(c) ==
    <<"[">> \o NumberStringTidied(c.number_string) \o <<"]", " ">>
        \o TidiedText(c) \o <<Nul>>

\* The solution and the empty grid, row by row.
SolutionLayer(cs, w, h) ==
    [i \in 1 .. w * h |->
        LET c == cs[<<(i - 1) \div w, (i - 1) % w>>]
        IN  IF c = NoCell THEN "." ELSE c]

\* A slip: a '-' for every cell, blocked or not.
PlayerLayerAllDashes(cs, w, h) == [i \in 1 .. w * h |-> "-"]

\* The empty grid: '-' for a cell, '.' for a block.
PlayerLayer(cs, w, h) ==
    [i \in 1 .. w * h |->
        IF cs[<<(i - 1) \div w, (i - 1) % w>>] = NoCell THEN "." ELSE "-"]

\* The UnicodeDecodeError of an implicit ASCII decode.
UnicodeDecodeError == "UnicodeDecodeError"

\* self.copyright_message = the bytes C3 82 C2 A9 and " Unknown": a Python 2 byte string
\* that holds four bytes above 127.
HighBytes == {"0xC3", "0x82", "0xC2", "0xA9"}
DefaultCopyright == <<"0xC3", "0x82", "0xC2", "0xA9", " ", "U", "n", "k", "n", "o", "w", "n">>

\* The 0x34 bytes the file opens with: bytearray(0x2C), the width, the
\* height, struct.pack("<h", count), bytearray(4).
\* struct.error: struct.pack("<h", count) of a count above 32767.
StructError == "StructError"
MaxShort == 32767

\* A count that does not pack leaves the 0x2E bytes written before it.
Header(w, h, n) ==
    [k \in 1 .. (IF n > MaxShort THEN 46 ELSE 52) |->
        IF k = 45 THEN w
        ELSE IF k = 46 THEN h
        ELSE IF k = 47 THEN n % 256
        ELSE IF k = 48 THEN n \div 256
        ELSE 0]

\* s.encode('UTF-8') of a Python 2 byte string decodes it as ASCII first.
Encodable(s) == \A k \in 1 .. Len(s) : s[k] \notin HighBytes

\* What a call that raised before the file was opened left: no file.
NoFile(err) ==
    [raised |-> err, width |-> 0, height |-> 0, nclues |-> 0, header |-> << >>,
     solutions |-> << >>, empty_grid |-> << >>,
     title |-> << >>, author |-> << >>, copyright_message |-> << >>,
     lines |-> << >>, terminator |-> << >>]

\* The file written from the reconciled groups: the header with the
\* dimensions and the count of clues, the two layers, the three strings each
\* with its NUL, the clue lines in order and the closing NUL.  A count that
\* does not pack raises with the file written up to the dimensions, a
\* copyright message that does not encode with the file written up to the
\* author.
FileOf(groups, cs, w, h, meta) ==
    LET all_clues == OrderedListOfClues(groups.a) \o OrderedListOfClues(groups.d)
        sorted == SortClues(all_clues, Len(all_clues))
        n == RealNumberOfClues(groups.a) + RealNumberOfClues(groups.d)
        packs == n <= MaxShort
        encodes == packs /\ Encodable(meta.copyright_message)
    IN  [raised |-> IF ~packs THEN StructError
                    ELSE IF encodes THEN "" ELSE UnicodeDecodeError,
         width |-> w, height |-> h, nclues |-> n,
         header |-> Header(w, h, n),
         solutions |-> IF packs THEN SolutionLayer(cs, w, h) ELSE << >>,
         empty_grid |-> IF packs THEN PlayerLayer(cs, w, h) ELSE << >>,
         title |-> IF packs THEN meta.title \o <<Nul>> ELSE << >>,
         author |-> IF packs THEN meta.author \o <<Nul>> ELSE << >>,
         copyright_message |->
             IF encodes THEN meta.copyright_message \o <<Nul>> ELSE << >>,
         lines |-> IF encodes
                   THEN [i \in 1 .. Len(sorted) |-> ClueLine(sorted[i])]
                   ELSE << >>,
         terminator |-> IF encodes THEN <<Nul>> ELSE << >>]

-----------------------------------------------------------------------------
(* Decoding a buffer (ccj_parse.py: read_clue_start_coordinates,           *)
(* parse_list_of_clues, read_from_ccj), byte by byte.  What a step returns *)
(* carries the exception that ended it, "" if none.                        *)

\* raise Exception("Couldn't find either 'across' or 'down' in label: ...");
\* a label that is not ascii raises UnicodeEncodeError out of message.format.
UnclassifiedClueSectionError == "UnclassifiedClueSectionError"
\* raise Exception("After clue number we expect a NUL to skip over")
ExpectNulError == "ExpectNulError"
\* raise Exception("Unknown value {0} at {1}")
UnknownValueError == "UnknownValueError"
\* raise Exception("So far we expect a 0x01 before the answers...")
ExpectOneError == "ExpectOneError"
\* raise Exception("Expect the first of the block of 16 always to be 0x02, ...")
ExpectMarkerError == "ExpectMarkerError"

\* reduce_coordinate
ReduceCoordinate(x) == IF x >= 128 THEN x - 128 ELSE x

CoordinatesRead(err, start_coordinates, i) ==
    [raised |-> err, start_coordinates |-> start_coordinates, i |-> i]

\* The while loop of read_clue_start_coordinates: pairs up to a NUL.
RECURSIVE ReadCoordinateList(_, _, _)
ReadCoordinateList(d, i, start_coordinates) ==
    IF i >= Len(d) THEN CoordinatesRead(IndexError, start_coordinates, i)
    ELSE IF ByteAt(d, i) = 0 THEN CoordinatesRead("", start_coordinates, i + 1)
    ELSE IF i + 1 >= Len(d) THEN CoordinatesRead(IndexError, start_coordinates, i)
    ELSE ReadCoordinateList(d, i + 2,
             Append(start_coordinates,
                    <<ReduceCoordinate(ByteAt(d, i)),
                      ReduceCoordinate(ByteAt(d, i + 1))>>))

\* read_clue_start_coordinates(data, start_index)
ReadClueStartCoordinates(d, i) ==
    IF i >= Len(d) THEN CoordinatesRead(IndexError, << >>, i)
    ELSE IF ByteAt(d, i) >= 128 THEN ReadCoordinateList(d, i, << >>)
    ELSE IF i + 1 >= Len(d) THEN CoordinatesRead(IndexError, << >>, i)
    ELSE CoordinatesRead("",
             << <<ReduceCoordinate(ByteAt(d, i)),
                  ReduceCoordinate(ByteAt(d, i + 1))>> >>, i + 2)

\* re.search(r'(?ims)<word>', s): the word somewhere in s, in either case.
ContainsWord(s, word) ==
    \E k \in 1 .. Len(s) - Len(word) + 1 :
        \A j \in 1 .. Len(word) : AsciiLower(s[k + j - 1]) = word[j]

\* What parse_list_of_clues returned or raised: the list, the index after it,
\* its label, where its count byte stood (-1 if it was not reached) and the
\* clue records read in full.
SectionRead(err, list, i, label, count_at, clues_found) ==
    [raised |-> err, list |-> list, i |-> i, label |-> label,
     count_at |-> count_at, clues_found |-> clues_found]

\* read_from_ccj at a point of its run: the index i, the attributes set so
\* far, the clue section being read, the two sections once read, and where i
\* stood when the answer layer, the filler run, the 0x02 test and the two
\* clue sections began (-1: not reached).
Reading ==
    [raised |-> "", i |-> 2, width |-> 0, height |-> 0, cells |-> << >>,
     clue_numbers |-> << >>, section |-> << >>, across |-> << >>, down |-> << >>,
     answers_at |-> -1, filler_at |-> -1, marker_at |-> -1,
     across_at |-> -1, down_at |-> -1]

Fail(st, err, at) == [st EXCEPT !.raised = err, !.i = at]

\* "while byte_at(d, i) != 0: s, i = read_string(d, i)": the button labels.
RECURSIVE SkipButtons(_, _)
SkipButtons(d, st) ==
    IF st.raised # "" THEN st
    ELSE IF st.i >= Len(d) THEN Fail(st, IndexError, st.i)
         ELSE IF ByteAt(d, st.i) = 0 THEN st
         ELSE LET s == ReadString(d, st.i)
              IN  IF s.raised # "" THEN Fail(st, s.raised, st.i)
                  ELSE SkipButtons(d, [st EXCEPT !.i = s.i])

\* The NUL skipped, the congratulations message, one more byte skipped.
ReadCongratulations(d, st) ==
    IF st.raised # "" THEN st
    ELSE LET s == ReadString(d, st.i + 1)
         IN  IF s.raised # "" THEN Fail(st, s.raised, st.i + 1)
             ELSE [st EXCEPT !.i = s.i + 1]

\* The width byte, the height byte, Grid(width, height).
ReadDimensions(d, st) ==
    IF st.raised # "" THEN st
    ELSE IF st.i >= Len(d) THEN Fail(st, IndexError, st.i)
         ELSE IF st.i + 1 >= Len(d)
         THEN Fail([st EXCEPT !.width = ByteAt(d, st.i)], IndexError, st.i + 1)
         ELSE [st EXCEPT !.width = ByteAt(d, st.i), !.height = ByteAt(d, st.i + 1),
                         !.cells = LayoutOf(ByteAt(d, st.i), ByteAt(d, st.i + 1), {}),
                         !.i = st.i + 2]

\* "while byte_at(d, i) != 0x3f and byte_at(d, i) != 0x23: i += 1"
RECURSIVE SeekGrid(_, _)
SeekGrid(d, st) ==
    IF st.raised # "" THEN st
    ELSE IF st.i >= Len(d) THEN Fail(st, IndexError, st.i)
         ELSE IF ByteAt(d, st.i) \in {63, 35} THEN st
         ELSE SeekGrid(d, [st EXCEPT !.i = st.i + 1])

\* The cell a row-major scan of a w-wide grid reaches k-th (k from 0).
CellOf(k, w) == <<k \div w, k % w>>

\* The least number of a set of naturals.
Least(S) == CHOOSE k \in S : \A j \in S : k <= j

\* The light/block layer: '?' or 'M' a light, '#' a block, anything else an
\* error; the cells before the byte that raises are set.
ReadGridLayer(d, st) ==
    IF st.raised # "" THEN st
    ELSE LET n == st.width * st.height
             bad == {k \in 0 .. n - 1 :
                        st.i + k >= Len(d) \/ ByteAt(d, st.i + k) \notin {63, 77, 35}}
             read == IF bad = {} THEN n ELSE Least(bad)
             lights == {CellOf(k, st.width) : k \in
                           {j \in 0 .. read - 1 : ByteAt(d, st.i + j) \in {63, 77}}}
             filled == [st EXCEPT !.cells = LayoutOf(st.width, st.height, lights),
                                  !.i = st.i + read]
         IN  IF bad = {} THEN filled
             ELSE IF st.i + read >= Len(d) THEN Fail(filled, IndexError, st.i + read)
             ELSE Fail(filled, UnknownValueError, st.i + read)

\* self.grid.set_numbers()
NumberGrid(st) ==
    IF st.raised # "" THEN st
    ELSE [st EXCEPT !.clue_numbers = SetNumbers(st.cells, st.width, st.height)]

\* The layer of unknown purpose: one byte for every cell of the grid, kept in
\* a grid that is dropped.
ReadUnknownLayer(d, st) ==
    IF st.raised # "" THEN st
    ELSE LET n == st.width * st.height
         IN  IF st.i + n > Len(d) THEN Fail(st, IndexError, Len(d))
             ELSE [st EXCEPT !.i = st.i + n]

\* "if byte_at(d, i) != 1: raise ..."
ExpectOne(d, st) ==
    IF st.raised # "" THEN st
    ELSE IF st.i >= Len(d) THEN Fail(st, IndexError, st.i)
         ELSE IF ByteAt(d, st.i) # 1 THEN Fail(st, ExpectOneError, st.i)
         ELSE [st EXCEPT !.i = st.i + 1]

\* The lights of a grid in row-major order.
LightsInOrder(cs, w, h) ==
    LET IsLight(k) == cs[CellOf(k, w)] # NoCell
        Rank(k) == Cardinality({j \in 0 .. k - 1 : IsLight(j)})
        n == Cardinality({k \in 0 .. w * h - 1 : IsLight(k)})
    IN  [r \in 1 .. n |->
            CellOf(CHOOSE k \in 0 .. w * h - 1 : IsLight(k) /\ Rank(k) = r - 1, w)]

\* A slip: the answer layer holds a byte for every cell, blocks included.
ReadAnswerLayerEveryCell(d, st) ==
    IF st.raised # "" THEN st
    ELSE LET n == st.width * st.height
             read == Min(n, IF Len(d) > st.i THEN Len(d) - st.i ELSE 0)
             lettered ==
                 [c \in DOMAIN st.cells |->
                     LET k == c[1] * st.width + c[2]
                     IN  IF st.cells[c] # NoCell /\ k < read
                         THEN Chr(ByteAt(d, st.i + k)) ELSE st.cells[c]]
             filled == [st EXCEPT !.cells = lettered, !.answers_at = st.i,
                                  !.i = st.i + read]
         IN  IF read < n THEN Fail(filled, IndexError, st.i + read)
             ELSE [filled EXCEPT !.filler_at = st.i + read]

\* The answer layer: "if self.grid.cells[y][x]: set_letter(chr(byte_at(d, i)));
\* i += 1", a byte for every light and none for a block.
ReadAnswerLayer(d, st) ==
    IF st.raised # "" THEN st
    ELSE LET lights == LightsInOrder(st.cells, st.width, st.height)
             read == Min(Len(lights), IF Len(d) > st.i THEN Len(d) - st.i ELSE 0)
             lettered ==
                 [c \in DOMAIN st.cells |->
                     IF \E r \in 1 .. read : lights[r] = c
                     THEN Chr(ByteAt(d, st.i - 1 + (CHOOSE r \in 1 .. read : lights[r] = c)))
                     ELSE st.cells[c]]
             filled == [st EXCEPT !.cells = lettered, !.answers_at = st.i,
                                  !.i = st.i + read]
         IN  IF read < Len(lights) THEN Fail(filled, IndexError, st.i + read)
             ELSE [filled EXCEPT !.filler_at = st.i + read]

\* skippable_block_of_four(data, start_index)
SkippableBlockOfFour(d, i) ==
    /\ i + 4 <= Len(d)
    /\ SubSeq(d, i + 1, i + 4)
           \in { <<0, 255, 255, 255>>, <<0, 0, 255, 255>>, <<0, 0, 0, 0>> }

\* "while skippable_block_of_four(d, i): i += 4"
RECURSIVE SkipFiller(_, _)
SkipFiller(d, st) ==
    IF st.raised # "" THEN st
    ELSE IF SkippableBlockOfFour(d, st.i) THEN SkipFiller(d, [st EXCEPT !.i = st.i + 4])
         ELSE [st EXCEPT !.marker_at = st.i]

\* A slip: the byte before the block of 16 is skipped unseen.
ExpectMarkerUnchecked(d, st) ==
    IF st.raised # "" THEN st
    ELSE IF st.i >= Len(d) THEN Fail(st, IndexError, st.i)
         ELSE [st EXCEPT !.i = st.i + 16]

\* "if byte_at(d, i) != 0x02: raise ...", then "i += 16".
ExpectMarker(d, st) ==
    IF st.raised # "" THEN st
    ELSE IF st.i >= Len(d) THEN Fail(st, IndexError, st.i)
         ELSE IF ByteAt(d, st.i) # 2 THEN Fail(st, ExpectMarkerError, st.i)
         ELSE [st EXCEPT !.i = st.i + 16]

\* parse_list_of_clues has returned or raised: the first call is the one
\* assigned to self.across_clues, the second the one assigned to
\* self.down_clues, whatever their labels say.
EndSection(st, section) ==
    LET ended == IF section.raised # ""
                 THEN [section EXCEPT !.list = << >>] ELSE section
        placed == IF st.down_at = -1
                  THEN [st EXCEPT !.section = << >>, !.across = ended]
                  ELSE [st EXCEPT !.section = << >>, !.down = ended]
    IN  IF section.raised # "" THEN Fail(placed, section.raised, section.i)
        ELSE [placed EXCEPT !.i = section.i]

\* parse_list_of_clues up to its loop: the label, the direction it names,
\* three bytes skipped, the declared count.
StartSection(d, st) ==
    IF st.raised # "" THEN st
    ELSE LET label == ReadString(d, st.i)
             count_at == label.i + 3
             started == IF st.across_at = -1 THEN [st EXCEPT !.across_at = st.i]
                        ELSE [st EXCEPT !.down_at = st.i]
             Stop(err, at) ==
                 EndSection(started, SectionRead(err, << >>, at, label.s, -1, 0))
         IN  IF label.raised # "" THEN Stop(label.raised, st.i)
             ELSE IF ~ContainsWord(label.s, <<"a", "c", "r", "o", "s", "s">>)
                     /\ ~ContainsWord(label.s, <<"d", "o", "w", "n">>)
             THEN Stop(IF IsAscii(label.s) THEN UnclassifiedClueSectionError
                       ELSE UnicodeEncodeError, label.i)
             ELSE IF count_at >= Len(d) THEN Stop(IndexError, count_at)
             ELSE [started EXCEPT
                      !.i = count_at + 1,
                      !.section =
                          SectionRead("",
                              NewListOfClues(
                                  ContainsWord(label.s,
                                               <<"a", "c", "r", "o", "s", "s">>),
                                  ByteAt(d, count_at)),
                              count_at + 1, label.s, count_at, 0)]

\* One pass of the "while True" loop of parse_list_of_clues: the start
\* coordinates, the number label, a NUL, the text, the clue stored; the
\* declared count is compared only then.
ReadClueRecord(d, st) ==
    IF st.raised # "" THEN st
    ELSE LET list == st.section.list
             co == ReadClueStartCoordinates(d, st.i)
             s == ReadString(d, co.i)
             c == SetNumber(NewClue(list.across), s.s, st.clue_numbers)
             text == ReadString(d, s.i + 1)
             read == [st.section EXCEPT
                         !.list = StoreClue(list,
                             [c EXCEPT !.text_including_enumeration = text.s]),
                         !.i = text.i,
                         !.clues_found = @ + 1]
             Stop(err, at) ==
                 EndSection(st, [st.section EXCEPT !.raised = err, !.i = at])
         IN  IF co.raised # "" THEN Stop(co.raised, co.i)
             ELSE IF s.raised # "" THEN Stop(s.raised, s.i)
             ELSE IF c.raised # "" THEN Stop(c.raised, s.i)
             ELSE IF s.i >= Len(d) THEN Stop(IndexError, s.i)
             ELSE IF ByteAt(d, s.i) # 0 THEN Stop(ExpectNulError, s.i)
             ELSE IF text.raised # "" THEN Stop(text.raised, text.i)
             ELSE IF read.clues_found >= list.number_of_clues
             THEN EndSection(st, read)
             ELSE [st EXCEPT !.i = text.i, !.section = read]

\* The arguments of read_from_ccj and the attributes it derives from them.
NoMetadata ==
    [title |-> None, author |-> None, copyright_message |-> None,
     setter |-> None, puzzle_number |-> None]

\* "if x:" of a string or None.
Truthy(v) == v # None /\ v # << >>

\* re.search(r'^(.*)-([0-9]+)', label): the greedy (.*) ends at the last '-'
\* that a digit follows.
DashesBeforeDigit(s) == {p \in 1 .. Len(s) - 1 : s[p] = "-" /\ IsDigit(s[p + 1])}

LabelSetter(s) ==
    LET p == CHOOSE q \in DashesBeforeDigit(s) : \A r \in DashesBeforeDigit(s) : r <= q
    IN  SubSeq(s, 1, p - 1)

LabelNumber(s) ==
    LET p == CHOOSE q \in DashesBeforeDigit(s) : \A r \in DashesBeforeDigit(s) : r <= q
    IN  SubSeq(s, p + 1, RunEnd(s, p + 1, DigitClass) - 1)

\* self.title = "Crossword"
DefaultTitle == <<"C", "r", "o", "s", "s", "w", "o", "r", "d">>
\* self.author = "Unknown Setter"
DefaultAuthor == <<"U", "n", "k", "n", "o", "w", "n", " ", "S", "e", "t", "t", "e", "r">>
\* The end of read_from_ccj: setter and puzzle_number from the across label,
\* the caller's author and number only where the label gave none, the title
\* built from them, the author and the copyright message.
MetadataOf(label, a) ==
    LET matched == DashesBeforeDigit(label) # {}
        from_label == IF matched THEN LabelSetter(label) ELSE None
        number_from_label == IF matched THEN LabelNumber(label) ELSE None
        setter == IF ~Truthy(from_label) /\ Truthy(a.author) THEN a.author
                  ELSE from_label
        puzzle_number ==
            IF ~Truthy(number_from_label) /\ Truthy(a.puzzle_number)
            THEN a.puzzle_number ELSE number_from_label
        named == IF Truthy(a.title) THEN a.title ELSE DefaultTitle
        numbered ==
            IF Truthy(setter) /\ Truthy(puzzle_number)
            THEN named \o <<" ">> \o puzzle_number \o <<" ", "/", " ">> \o setter
            ELSE IF Truthy(setter) THEN named \o <<" ", "/", " ">> \o setter
            ELSE IF Truthy(puzzle_number) THEN named \o <<" ">> \o puzzle_number
            ELSE named
    IN  [title |-> IF Truthy(a.date_string)
                   THEN numbered \o <<" ", "(">> \o a.date_string \o <<")">>
                   ELSE numbered,
         author |-> IF Truthy(a.author) THEN a.author ELSE DefaultAuthor,
         copyright_message |-> IF Truthy(a.copyright_message)
                               THEN a.copyright_message ELSE DefaultCopyright,
         setter |-> setter, puzzle_number |-> puzzle_number]

-----------------------------------------------------------------------------
(* The program: ParsedCCJ(), read_from_ccj, write_to_puz_file.             *)

\* The number labels the clue records of the two sections are drawn from.
\* On SampleGrid: "12" and "2/12" name down entries from the across section,
\* "4/12A" calls 12 an across entry, "1/30D" names an entry the grid lacks,
\* "4" and a capital E with an acute accent is read as 4.
AcrossLabels ==
    { <<"4">>, <<"1", "2">>,
      <<"4", "/", "1", "2">>, <<"2", "/", "1", "2">>, <<"1", "/", "3">>,
      <<"4", "/", "1", "2", "A">>, <<"1", "/", "3", "0", "D">>,
      <<"4", "U+201">> }

DownLabels ==
    { <<"1">>, <<"2">>, <<"1", "2">>, <<"1", "2", "/", "4">> }

\* The text of every clue record read.
ClueText == <<"T", "e", "s", "t", " ", "(", "4", ")">>

\* The letter the answer layer gives every light.
AnswerLetter == "A"

RecordsOf(labels) == {[number_string |-> l, text |-> ClueText] : l \in labels}

\* The label of the across section of these buffers, and what the caller
\* passes: a copyright message and nothing else.
PlainLabel == <<"A", "c", "r", "o", "s", "s">>

GivenCopyright == <<"(", "c", ")">>

OutputFilename == <<"o", "u", "t", ".", "p", "u", "z">>

PlainArgs ==
    [title |-> None, author |-> None, puzzle_number |-> None,
     copyright_message |-> GivenCopyright, date_string |-> None,
     output_filename |-> OutputFilename]

\* ParsedCCJ.__init__: every attribute None.
Init ==
    /\ pc = "constructed"
    /\ stdout_encoding \in StdoutEncodings
    /\ GridIdle /\ NumberIdle /\ TextIdle /\ PuzzleIdle /\ BufferIdle
    /\ args = PlainArgs
    /\ raised = ""
    /\ cursor = << >>
    /\ metadata = NoMetadata

\* read_from_ccj on a buffer that holds the grid g and the clue records ra and
\* rd under the declared counts na and nd.  A label that does not resolve
\* raises out of read_from_ccj: across_clues is assigned only once the across
\* section is read, down_clues only once the down section is.
ReadFromCcj ==
    /\ pc = "constructed"
    /\ \E g \in GridCatalogue, na \in 0 .. MaxAcrossClues, nd \in 0 .. MaxDownClues :
         \E ra \in [1 .. RecordsRead(na) -> RecordsOf(AcrossLabels)],
            rd \in [1 .. RecordsRead(nd) -> RecordsOf(DownLabels)] :
           LET nums == SetNumbers(g.cells, g.width, g.height)
               a == ParseListOfClues(TRUE, na, ra, nums)
               d == ParseListOfClues(FALSE, nd, rd, nums)
           IN  /\ width' = g.width
               /\ height' = g.height
               /\ cells' = WithLetter(g.cells, AnswerLetter)
               /\ clue_numbers' = nums
               /\ across_clues' = IF a.raised = "" THEN a.list ELSE << >>
               /\ down_clues' =
                      IF a.raised = "" /\ d.raised = "" THEN d.list ELSE << >>
               /\ pc' = IF a.raised = "" /\ d.raised = "" THEN "decoded"
                        ELSE "decode_failed"
               /\ metadata' = IF a.raised = "" /\ d.raised = ""
                              THEN MetadataOf(PlainLabel, args) ELSE metadata
               /\ raised' = IF a.raised # "" THEN a.raised ELSE d.raised
    /\ UNCHANGED <<tokenVars, textVars, stdout_encoding, clue_groups, outputs, bufferVars, args, cursor>>

\* write_to_puz_file: the copies, the reconciliation, the file; a placeholder
\* whose number the grid lacks raises before the file is opened.  Were the
\* groups the puzzle's own lists, the puzzle would hold what they end as.
WriteToPuzFile ==
    /\ pc = "decoded"
    /\ Len(outputs) < MaxWrites
    /\ LET groups == Reconcile(CopiedGroups(across_clues, down_clues), clue_numbers)
       IN  /\ clue_groups' = groups
           /\ outputs' = Append(outputs,
                  IF groups.raised # "" THEN NoFile(groups.raised)
                  ELSE FileOf(groups, cells, width, height, metadata))
           /\ across_clues' = IF groups.shared THEN groups.a ELSE across_clues
           /\ down_clues' = IF groups.shared THEN groups.d ELSE down_clues
    /\ UNCHANGED <<pc, gridVars, tokenVars, textVars, stdout_encoding, bufferVars, mainVars>>

Next == ReadFromCcj \/ WriteToPuzFile

Spec == Init /\ [][Next]_vars

-----------------------------------------------------------------------------
(* main(): a buffer on standard input, the options, read_from_ccj, and     *)
(* write_to_puz_file if an output file was named.                          *)

\* ord(c) of a character of Latin-1.
Ord(c) ==
    IF \E k \in 1 .. Len(Printable) : Printable[k] = c
    THEN 31 + (CHOOSE k \in 1 .. Len(Printable) : Printable[k] = c)
    ELSE CHOOSE cp \in 0 .. 255 : Chr(cp) = c

Bytes(s) == [k \in 1 .. Len(s) |-> Ord(s[k])]

\* A string as a CCJ file holds it: its length in a byte, then its bytes.
LengthPrefixed(s) == <<Len(s)>> \o Bytes(s)

RECURSIVE Concat(_)
Concat(seqs) == IF seqs = << >> THEN << >> ELSE Head(seqs) \o Concat(Tail(seqs))

\* One clue record: the start coordinates (two bytes, or a NUL-ended list
\* when the first is 0x80 or more), the number label, a NUL, the text.
ClueRecord(r) ==
    r.coordinates \o LengthPrefixed(r.number_string) \o <<0>> \o LengthPrefixed(r.text)

\* A clue section: the label, three bytes, the declared count, the records.
ClueSection(s) ==
    LengthPrefixed(s.label) \o <<0, 0, 0>> \o <<s.n>>
        \o Concat([k \in 1 .. Len(s.records) |-> ClueRecord(s.records[k])])

\* The light/block layer of a grid: '?' for a light ('M' for the last one
\* of a puzzle that uses it), '#' for a block.
GridLayer(g, odd_light) ==
    LET lights == LightsInOrder(g.cells, g.width, g.height)
    IN  [k \in 1 .. g.width * g.height |->
            LET c == CellOf(k - 1, g.width)
            IN  IF g.cells[c] = NoCell THEN 35
                ELSE IF odd_light /\ c = lights[Len(lights)] THEN 77
                ELSE 63]

\* The layer of unknown purpose: a small number in every cell.
UnknownLayer(g) == [k \in 1 .. g.width * g.height |-> (k - 1) % 13]

\* The answer layer: 'A', 'B', ... for the lights in order, '+' for the
\* first light of a puzzle without its answer.
AnswerLayer(g, unset) ==
    [r \in 1 .. Len(LightsInOrder(g.cells, g.width, g.height)) |->
        IF unset /\ r = 1 THEN 43 ELSE 64 + r]

\* The blocks of four a file may hold before the marker.
FillerBlocks == << <<0, 255, 255, 255>>, <<0, 0, 255, 255>>, <<0, 255, 255, 255>> >>

Filler(k) == Concat([j \in 1 .. k |-> FillerBlocks[((j - 1) % 3) + 1]])

\* A CCJ file: two bytes, a button label, a NUL, the congratulations, a byte,
\* the dimensions, a byte before the grid, the three layers with 0x01 before
\* the answers, the filler, the marker and the 15 bytes after it, the two
\* clue sections; the last p.cut bytes are missing.
Buffer(p) ==
    LET whole ==
            <<67, 67>> \o LengthPrefixed(<<"O", "K">>) \o <<0>>
                \o LengthPrefixed(<<"W", "e", "l", "l">>) \o <<2>>
                \o <<p.grid.width, p.grid.height>> \o <<1>>
                \o GridLayer(p.grid, p.odd_light) \o UnknownLayer(p.grid)
                \o <<1>> \o AnswerLayer(p.grid, p.unset)
                \o Filler(p.filler) \o <<p.marker>> \o [k \in 1 .. 15 |-> 0]
                \o ClueSection(p.across) \o ClueSection(p.down)
    IN  SubSeq(whole, 1, Len(whole) - p.cut)

\* A record of a clue section: coordinates of either form.
RecordOf(label, listed) ==
    [coordinates |-> IF listed THEN <<129, 130, 131, 132, 0>> ELSE <<1, 2>>,
     number_string |-> label, text |-> ClueText]

\* A 2 x 1 grid: one across entry.
PairGrid == [width |-> 2, height |-> 1, cells |-> LayoutOf(2, 1, {<<0, 0>>, <<0, 1>>})]

MainGrids == {PairGrid, SquareGrid, RingGrid}

\* The most filler blocks and the most missing bytes, in fours.
MaxFillerBlocks == 2
MaxCut == 3

DownLabel == <<"D", "o", "w", "n">>

SectionLabels ==
    { PlainLabel, DownLabel, <<"C", "l", "u", "e", "s">>,
      <<"P", "h", "i", "-", "1", "2", " ", "A", "c", "r", "o", "s", "s">>,
      <<"-", "7", " ", "A", "C", "R", "O", "S", "S">> }

\* Files that differ in the grid, its layers, the filler, the marker and
\* where they end; both sections hold the clue of entry 1.
LayerFiles ==
    { Buffer([grid |-> g, odd_light |-> ol, unset |-> un, filler |-> fb,
              marker |-> m, cut |-> 4 * ct,
              across |-> [label |-> PlainLabel, n |-> 1,
                          records |-> <<RecordOf(<<"1">>, FALSE)>>],
              down |-> [label |-> DownLabel, n |-> 1,
                        records |-> <<RecordOf(<<"1">>, TRUE)>>]]) :
        g \in MainGrids, ol \in BOOLEAN, un \in BOOLEAN,
        fb \in 0 .. MaxFillerBlocks, m \in {2, 0, 3}, ct \in 0 .. MaxCut }

\* The number labels of the records of the sections of a SquareGrid file.
AcrossNumberStrings == { <<"1">>, <<"3">>, <<"2">> }
DownNumberStrings == { <<"1">>, <<"2">> }

SectionRecords(labels, most) ==
    UNION { [1 .. k -> {RecordOf(l, FALSE) : l \in labels}] : k \in 1 .. most }

\* Files that differ in the declared counts and the records of the sections:
\* a section may hold fewer or more records than it declares.
RecordFiles ==
    { Buffer([grid |-> SquareGrid, odd_light |-> FALSE, unset |-> FALSE,
              filler |-> 0, marker |-> 2, cut |-> 0,
              across |-> [label |-> PlainLabel, n |-> na, records |-> ra],
              down |-> [label |-> DownLabel, n |-> nd, records |-> rd]]) :
        na \in 0 .. MaxAcrossClues, nd \in 0 .. MaxDownClues,
        ra \in SectionRecords(AcrossNumberStrings, MaxAcrossClues),
        rd \in SectionRecords(DownNumberStrings, MaxDownClues) }

\* Files that differ in the labels of the two sections.
LabelFiles ==
    { Buffer([grid |-> SquareGrid, odd_light |-> FALSE, unset |-> FALSE,
              filler |-> 0, marker |-> 2, cut |-> 0,
              across |-> [label |-> la, n |-> 2,
                          records |-> <<RecordOf(<<"1">>, FALSE),
                                        RecordOf(<<"3">>, FALSE)>>],
              down |-> [label |-> ld, n |-> 2,
                        records |-> <<RecordOf(<<"1">>, FALSE),
                                      RecordOf(<<"2">>, FALSE)>>]]) :
        la \in SectionLabels, ld \in SectionLabels }

\* A well-formed file with one of its bytes replaced, from the dimensions on.
SoundFile ==
    Buffer([grid |-> RingGrid, odd_light |-> FALSE, unset |-> FALSE,
            filler |-> 1, marker |-> 2, cut |-> 0,
            across |-> [label |-> PlainLabel, n |-> 2,
                        records |-> <<RecordOf(<<"1">>, FALSE),
                                      RecordOf(<<"3">>, TRUE)>>],
            down |-> [label |-> DownLabel, n |-> 2,
                      records |-> <<RecordOf(<<"1">>, FALSE),
                                    RecordOf(<<"2">>, FALSE)>>]])

DamagedFiles ==
    { [SoundFile EXCEPT ![k] = v] : k \in 13 .. Len(SoundFile), v \in {0, 2, 35, 200} }

\* Files whose across section holds two records that differ in their text:
\* the second names the entry of the first again, alone or first in a list,
\* or another entry.
RepeatFiles ==
    { Buffer([grid |-> SquareGrid, odd_light |-> FALSE, unset |-> FALSE,
              filler |-> 0, marker |-> 2, cut |-> 0,
              across |-> [label |-> PlainLabel, n |-> 2,
                          records |-> <<RecordOf(<<"1">>, FALSE),
                                        [RecordOf(l, FALSE) EXCEPT
                                            !.text = <<"L", "a", "s", "t">>]>>],
              down |-> [label |-> DownLabel, n |-> 1,
                        records |-> <<RecordOf(<<"1">>, FALSE)>>]]) :
        l \in { <<"1">>, <<"1", "/", "3">>, <<"3">> } }

\* The files whose run every choice of options is tried on.
TitledFiles ==
    { Buffer([grid |-> SquareGrid, odd_light |-> FALSE, unset |-> FALSE,
              filler |-> 0, marker |-> 2, cut |-> 0,
              across |-> [label |-> la, n |-> 1,
                          records |-> <<RecordOf(<<"1">>, FALSE)>>],
              down |-> [label |-> DownLabel, n |-> 1,
                        records |-> <<RecordOf(<<"1">>, FALSE)>>]]) :
        la \in SectionLabels \ {DownLabel} }

\* The options of main: each given or not, the output file name also given
\* as the empty string.
MainArgs ==
    [title : {None, <<"T", "i", "m", "e", "s">>},
     author : {None, <<"M", "e">>},
     puzzle_number : {None, <<"7">>},
     copyright_message : {None, GivenCopyright},
     date_string : {None, <<"2", "0", "1", "3", "-", "1", "2", "-", "0", "5">>},
     output_filename : {None, << >>, OutputFilename}]

\* main() before it reads: the bytes on standard input and the options.
InitMain ==
    /\ pc = "main"
    /\ stdout_encoding \in StdoutEncodings
    /\ \/ /\ data \in LayerFiles \cup RecordFiles \cup LabelFiles \cup DamagedFiles
                       \cup RepeatFiles
          /\ args = PlainArgs
       \/ /\ data \in TitledFiles
          /\ args \in MainArgs
    /\ start_index = 0
    /\ string_read = << >>
    /\ passes = 0
    /\ raised = ""
    /\ cursor = << >>
    /\ metadata = NoMetadata
    /\ GridIdle /\ NumberIdle /\ TextIdle /\ PuzzleIdle

\* What a step of read_from_ccj leaves: the attributes assigned so far, the
\* exception if it raised, across_clues and down_clues once their call of
\* parse_list_of_clues has returned.
Reached(next) ==
    /\ width' = cursor'.width
    /\ height' = cursor'.height
    /\ cells' = cursor'.cells
    /\ clue_numbers' = cursor'.clue_numbers
    /\ across_clues' = IF cursor'.across # << >> THEN cursor'.across.list ELSE << >>
    /\ down_clues' = IF cursor'.down # << >> THEN cursor'.down.list ELSE << >>
    /\ raised' = cursor'.raised
    /\ pc' = IF cursor'.raised # "" THEN "decode_failed" ELSE next
    /\ UNCHANGED <<tokenVars, textVars, stdout_encoding, clue_groups, outputs, bufferVars, args,
                   metadata>>

\* read_from_ccj up to the grid: the button labels, the congratulations, the
\* dimensions, Grid(width, height), the bytes before the first '?' or '#'.
MainReadPreamble ==
    /\ pc = "main"
    /\ cursor' = SeekGrid(data, ReadDimensions(data,
                     ReadCongratulations(data, SkipButtons(data, Reading))))
    /\ Reached("grid")

\* The light/block layer and set_numbers().
MainReadGrid ==
    /\ pc = "grid"
    /\ cursor' = NumberGrid(ReadGridLayer(data, cursor))
    /\ Reached("answers")

\* The layer of unknown purpose, the 0x01 and the answer layer.
MainReadAnswers ==
    /\ pc = "answers"
    /\ cursor' = ReadAnswerLayer(data, ExpectOne(data, ReadUnknownLayer(data, cursor)))
    /\ Reached("marker")

\* The filler blocks, the 0x02 test and "i += 16".
MainReadMarker ==
    /\ pc = "marker"
    /\ cursor' = ExpectMarker(data, SkipFiller(data, cursor))
    /\ Reached("section")

\* parse_list_of_clues up to its loop.
MainStartSection ==
    /\ pc = "section"
    /\ cursor' = StartSection(data, cursor)
    /\ Reached("records")

\* One pass of the loop of parse_list_of_clues; after the last record of the
\* first section the second begins, after the last of the second the
\* metadata is set.
MainReadClueRecord ==
    /\ pc = "records"
    /\ cursor' = ReadClueRecord(data, cursor)
    /\ Reached(IF cursor'.section # << >> THEN "records"
               ELSE IF cursor'.down = << >> THEN "section"
               ELSE "metadata")

\* The end of read_from_ccj: setter, puzzle_number, title, author and
\* copyright_message.
MainReadMetadata ==
    /\ pc = "metadata"
    /\ metadata' = MetadataOf(cursor.across.label, args)
    /\ pc' = "decoded"
    /\ UNCHANGED <<gridVars, tokenVars, textVars, stdout_encoding, puzzleVars, bufferVars, args,
                   raised, cursor>>

\* "if options.output_filename: parsed.write_to_puz_file(...)": a name that
\* was given and is not empty.
MainWriteToPuzFile ==
    /\ Truthy(args.output_filename)
    /\ outputs = << >>
    /\ WriteToPuzFile

\* main with no output file name, or an empty one, writes nothing.
NoNameNoFile == ~Truthy(args.output_filename) => outputs = << >>

\* A run with -o "" that has decoded its puzzle and ends there.
EmptyNameDecoded ==
    /\ pc = "decoded"
    /\ args.output_filename = << >>
    /\ outputs = << >>

NextMain ==
    \/ MainReadPreamble
    \/ MainReadGrid
    \/ MainReadAnswers
    \/ MainReadMarker
    \/ MainStartSection
    \/ MainReadClueRecord
    \/ MainReadMetadata
    \/ MainWriteToPuzFile

SpecMain == InitMain /\ [][NextMain]_vars

-----------------------------------------------------------------------------
(* write_to_puz_file on a puzzle a caller of the classes has put together:  *)
(* a Grid with its lights lettered, the two ListOfClues filled clue by clue *)
(* as parse_list_of_clues fills them, either possibly empty.                *)

\* The grid g with the letters 'A', 'B', ... on its lights in order.
Lettered(g) ==
    LET lights == LightsInOrder(g.cells, g.width, g.height)
    IN  [c \in DOMAIN g.cells |->
            IF g.cells[c] = NoCell THEN NoCell
            ELSE Chr(64 + (CHOOSE r \in 1 .. Len(lights) : lights[r] = c))]

\* clue.set_number(label, grid), the text, and the clue stored, for each
\* label in turn; the exception of a label that does not resolve.
RECURSIVE FilledList(_, _, _, _)
FilledList(list, labels, k, nums) ==
    IF k > Len(labels) THEN [raised |-> "", list |-> list]
    ELSE LET c == SetNumber(NewClue(list.across), labels[k], nums)
         IN  IF c.raised # "" THEN [raised |-> c.raised, list |-> list]
             ELSE FilledList(
                      StoreClue(list, [c EXCEPT !.text_including_enumeration = ClueText]),
                      labels, k + 1, nums)

EncodeAcrossLabels == { <<"1">>, <<"3">>, <<"1", "/", "2">>, <<"3", "A">> }
EncodeDownLabels == { <<"1">>, <<"2">> }

\* The puzzle is complete and nothing has been written.
InitEncode ==
    /\ pc = "decoded"
    /\ stdout_encoding \in StdoutEncodings
    /\ \E g \in MainGrids :
         \E la \in SeqsUpTo(EncodeAcrossLabels, MaxAcrossClues),
            ld \in SeqsUpTo(EncodeDownLabels, MaxDownClues) :
           LET nums == SetNumbers(g.cells, g.width, g.height)
               a == FilledList(NewListOfClues(TRUE, Len(la)), la, 1, nums)
               d == FilledList(NewListOfClues(FALSE, Len(ld)), ld, 1, nums)
           IN  /\ a.raised = ""
               /\ d.raised = ""
               /\ width = g.width
               /\ height = g.height
               /\ cells = Lettered(g)
               /\ clue_numbers = nums
               /\ across_clues = a.list
               /\ down_clues = d.list
    /\ args \in {PlainArgs, [PlainArgs EXCEPT !.copyright_message = None]}
    /\ metadata = MetadataOf(PlainLabel, args)
    /\ raised = ""
    /\ cursor = << >>
    /\ clue_groups = << >>
    /\ outputs = << >>
    /\ NumberIdle /\ TextIdle /\ BufferIdle

NextEncode == WriteToPuzFile

SpecEncode == InitEncode /\ [][NextEncode]_vars

\* The keys of a clue map that hold a synthesized placeholder.
Placeholders(copy, original) ==
    DOMAIN copy.clue_dictionary.items \ DOMAIN original.clue_dictionary.items

\* C1: every call of write_to_puz_file on a decoded puzzle gives what the
\* first call gave: the same count of clues, the same clue lines in the same
\* order (the placeholders among them), the same layers.
C1_EncodeTwiceSame ==
    \A i, j \in 1 .. Len(outputs) : outputs[i] = outputs[j]

\* Two calls that each wrote a file with a placeholder in it.
C1_Witness ==
    /\ pc = "decoded"
    /\ Len(outputs) = 2
    /\ outputs[2].raised = ""
    /\ Placeholders(clue_groups.d, down_clues) # {}
    /\ outputs[2].nclues > RealNumberOfClues(across_clues)
                               + RealNumberOfClues(down_clues)

\* C2: no step from a decoded puzzle changes its across or down clue map: the
\* placeholders go to the copies only.
C2_EncodeLeavesPuzzle ==
    [][pc = "decoded" =>
           across_clues' = across_clues /\ down_clues' = down_clues]_vars

\* Two calls done, the copies of the last holding placeholders in both maps
\* that the puzzle's maps lack.
C2_Witness ==
    /\ pc = "decoded"
    /\ Len(outputs) = 2
    /\ clue_groups.raised = ""
    /\ Placeholders(clue_groups.a, across_clues) # {}
    /\ Placeholders(clue_groups.d, down_clues) # {}

\* The case of C9: the across map holds a clue labelled "4/12" whose 12 is a
\* down entry, the down map holds no clue 12, and a call has reconciled them.
FourTwelve ==
    /\ pc = "decoded"
    /\ Len(outputs) >= 1
    /\ clue_groups.raised = ""
    /\ DictHas(across_clues.clue_dictionary, 4)
    /\ across_clues.clue_dictionary.items[4].number_string = <<"4", "/", "1", "2">>
    /\ across_clues.clue_dictionary.items[4].all_clue_numbers
           = << <<4, TRUE>>, <<12, FALSE>> >>
    /\ ~DictHas(down_clues.clue_dictionary, 12)

\* C9 as stated: then the down map of the copies holds an entry 12 whose text
\* is "See 4", with no direction suffix.
C9_AsStated ==
    FourTwelve =>
        /\ DictHas(clue_groups.d.clue_dictionary, 12)
        /\ clue_groups.d.clue_dictionary.items[12].text_including_enumeration
               = <<"S", "e", "e", " ", "4">>

\* The across clues of the puzzle that refer to the down entry n.
ReferDown(n) ==
    {k \in DOMAIN across_clues.clue_dictionary.items :
        \E i \in 1 .. Len(across_clues.clue_dictionary.items[k].all_clue_numbers) :
            across_clues.clue_dictionary.items[k].all_clue_numbers[i] = <<n, FALSE>>}

SeeDown(k) == <<"S", "e", "e", " ">> \o Str(k) \o <<" ", "d", "o", "w", "n">>

\* C9, amended: then the down map of the copies holds one entry 12, a
\* placeholder for the down entry 12 whose text carries the direction suffix:
\* "See 4 down" when "4/12" is the only across clue that refers to 12 down,
\* and otherwise "See k down" for one across clue k that does; and every call
\* writes the same file, with one line "[12] See k down" in it.
C9_PlaceholderSee4Down ==
    FourTwelve =>
        LET d == clue_groups.d.clue_dictionary
            line == <<"[", "1", "2", "]", " ">>
                        \o d.items[12].text_including_enumeration \o <<Nul>>
        IN  /\ DictHas(d, 12)
            /\ Cardinality({i \in 0 .. d.size - 1 : d.slots[i] = 12}) = 1
            /\ d.items[12].across = FALSE
            /\ d.items[12].all_clue_numbers = << <<12, FALSE>> >>
            /\ d.items[12].text_including_enumeration \in {SeeDown(k) : k \in ReferDown(12)}
            /\ ReferDown(12) = {4}
                   => d.items[12].text_including_enumeration = SeeDown(4)
            /\ \A o \in 1 .. Len(outputs) :
                   /\ outputs[o] = outputs[1]
                   /\ Cardinality({i \in 1 .. Len(outputs[o].lines) :
                                       outputs[o].lines[i] = line}) = 1

\* "4/12" the only across clue, a down clue 2, and two calls done.
C9_Witness ==
    /\ FourTwelve
    /\ Len(outputs) = 2
    /\ DOMAIN across_clues.clue_dictionary.items = {4}
    /\ clue_groups.d.clue_dictionary.items[12].text_including_enumeration
           = SeeDown(4)

\* The clues the puzzle holds in the section of a direction, and the pairs
\* each refers to.
DecodedClues(across) ==
    IF across THEN across_clues.clue_dictionary.items
    ELSE down_clues.clue_dictionary.items

\* C10: when reconciliation has ended, for every clue of either clue map of
\* the puzzle and every (number, direction) pair of its reference list the
\* copy of the map of that direction holds an entry under that number, and
\* every entry the puzzle's maps held is in the copies as it was.
C10_EveryReferenceHasEntry ==
    (pc = "decoded" /\ Len(outputs) >= 1 /\ clue_groups.raised = "") =>
        \A section \in BOOLEAN :
            \A k \in DOMAIN DecodedClues(section) :
                /\ \A i \in 1 .. Len(DecodedClues(section)[k].all_clue_numbers) :
                       LET ref == DecodedClues(section)[k].all_clue_numbers[i]
                       IN  DictHas(GroupDict(clue_groups, ref[2]), ref[1])
                /\ GroupDict(clue_groups, section).items[k] = DecodedClues(section)[k]

\* A down clue "12/4" with the across clue 4 decoded: the reference to 4 across
\* finds the decoded clue, and the across clue "1/3" got its placeholder.
C10_Witness ==
    /\ pc = "decoded"
    /\ Len(outputs) >= 1
    /\ clue_groups.raised = ""
    /\ DictHas(down_clues.clue_dictionary, 12)
    /\ down_clues.clue_dictionary.items[12].all_clue_numbers
           = << <<12, FALSE>>, <<4, TRUE>> >>
    /\ DictHas(across_clues.clue_dictionary, 4)
    /\ clue_groups.a.clue_dictionary.items[4].text_including_enumeration = ClueText
    /\ Placeholders(clue_groups.d, down_clues) # {}

-----------------------------------------------------------------------------
(* Claims about a run of main() on a buffer.                                *)

\* C11: when the byte at the cursor after the grid layers and the filler run
\* is not 0x02, decoding fails there: no clue section is read, across_clues
\* and down_clues stay unset, the metadata is not set, and nothing is written.
C11_MarkerGuardsSections ==
    (/\ cursor # << >>
     /\ cursor.marker_at >= 0
     /\ cursor.marker_at < Len(data)
     /\ ByteAt(data, cursor.marker_at) # 2)
        => /\ pc = "decode_failed"
           /\ raised = ExpectMarkerError
           /\ cursor.i = cursor.marker_at
           /\ cursor.across_at = -1
           /\ cursor.down_at = -1
           /\ across_clues = << >>
           /\ down_clues = << >>
           /\ metadata = NoMetadata
           /\ outputs = << >>

\* A file with 0x03 where the marker is expected, after one filler block, and
\* an output file named: the run ended on the marker.
C11_Witness ==
    /\ pc = "decode_failed"
    /\ raised = ExpectMarkerError
    /\ Truthy(args.output_filename)
    /\ cursor.marker_at = cursor.filler_at + 4
    /\ ByteAt(data, cursor.marker_at) = 3
    /\ across_clues = << >>

\* C20: the answer layer holds one byte for every light in row-major order
\* and none for a block: the cursor moves by the number of lights, and the
\* letter of a light is the character of its byte, the '+' of a light without
\* an answer included.
C20_AnswerByteForEveryLight ==
    (cursor # << >> /\ cursor.filler_at >= 0) =>
        LET lights == {c \in DOMAIN cells : cells[c] # NoCell}
            Before(c) == {b \in lights :
                            b[1] < c[1] \/ (b[1] = c[1] /\ b[2] < c[2])}
        IN  /\ cursor.filler_at - cursor.answers_at = Cardinality(lights)
            /\ \A c \in lights :
                   cells[c] = Chr(ByteAt(data, cursor.answers_at
                                                + Cardinality(Before(c))))

\* The 3 x 3 grid with a block in the middle, whose first light has no
\* answer: the light after the block holds the fifth byte of the layer.
C20_Witness ==
    /\ cursor # << >>
    /\ cursor.filler_at = cursor.answers_at + 8
    /\ width = 3
    /\ height = 3
    /\ cells[<<1, 1>>] = NoCell
    /\ cells[<<0, 0>>] = UnsetLetter
    /\ ByteAt(data, cursor.answers_at) = 43
    /\ cells[<<1, 2>>] = "E"
    /\ ByteAt(data, cursor.answers_at + 4) = 69

\* C12 as stated: what the caller gives comes before what the across label
\* yields: a puzzle number or an author given by the caller is the number or
\* the setter the title is built from, and with no author given the setter
\* the label yielded is the author.
C12_AsStated ==
    pc = "decoded" =>
        /\ Truthy(args.puzzle_number) => metadata.puzzle_number = args.puzzle_number
        /\ Truthy(args.author) => metadata.setter = args.author
        /\ (~Truthy(args.author) /\ Truthy(metadata.setter))
               => metadata.author = metadata.setter

\* C16 as stated: a clue section that was read through holds as many records
\* as its count byte declares, and with a count of 0 nothing is read after
\* the count byte: no exception, no clue, the cursor just after the count.
C16_AsStated ==
    cursor # << >> =>
        \A section \in {cursor.across, cursor.down} :
            (section # << >> /\ section.count_at >= 0) =>
                LET n == ByteAt(data, section.count_at)
                IN  /\ section.raised = "" => section.clues_found = n
                    /\ n = 0 => /\ section.raised = ""
                                /\ section.i = section.count_at + 1
                                /\ DictLen(section.list.clue_dictionary) = 0

\* C17 as stated: the across clues of a decoded puzzle come from a section
\* whose label names across, the down clues from one whose label names down.
C17_AsStated ==
    pc = "decoded" => across_clues.across /\ ~down_clues.across

-----------------------------------------------------------------------------
(* Claims about the file write_to_puz_file writes.                          *)

\* C13: in every file written the 52 header bytes (zero but for the width, the
\* height and the count of clues) are followed by a solution layer of
\* width * height bytes in row-major order, the letter of a cell or '.' for a
\* block, and by a player layer of that length, '-' at cells and '.' at
\* blocks; and the 2 x 1 grid with the single across clue "1", "Test (4)",
\* gives the two letters, "--", and the one line "[1] Test (4)" with its NUL
\* and the closing NUL.
C13_LayersAfterHeader ==
    \A k \in 1 .. Len(outputs) :
        LET o == outputs[k]
        IN  o.header # << >> =>
              /\ Len(o.header) = 52
              /\ \A b \in 1 .. 52 :
                     o.header[b] = IF b = 45 THEN width
                                   ELSE IF b = 46 THEN height
                                   ELSE IF b = 47 THEN o.nclues % 256
                                   ELSE IF b = 48 THEN o.nclues \div 256
                                   ELSE 0
              /\ Len(o.solutions) = width * height
              /\ Len(o.empty_grid) = width * height
              /\ \A y \in 0 .. height - 1, x \in 0 .. width - 1 :
                     LET at == y * width + x + 1
                     IN  IF cells[<<y, x>>] = NoCell
                         THEN o.solutions[at] = "." /\ o.empty_grid[at] = "."
                         ELSE /\ o.solutions[at] = cells[<<y, x>>]
                              /\ o.empty_grid[at] = "-"
              /\ (/\ o.raised = ""
                  /\ width = 2 /\ height = 1
                  /\ DOMAIN across_clues.clue_dictionary.items = {1}
                  /\ across_clues.clue_dictionary.items[1].number_string = <<"1">>
                  /\ DOMAIN down_clues.clue_dictionary.items = {})
                     => /\ o.solutions = <<"A", "B">>
                        /\ o.empty_grid = <<"-", "-">>
                        /\ o.lines = << <<"[", "1", "]", " ", "T", "e", "s", "t",
                                         " ", "(", "4", ")", Nul>> >>
                        /\ o.terminator = <<Nul>>
                        /\ o.nclues = 1

\* The 2 x 1 puzzle with its one across clue and no down clue, written.
C13_Witness ==
    /\ Len(outputs) >= 1
    /\ outputs[1].raised = ""
    /\ width = 2 /\ height = 1
    /\ DOMAIN across_clues.clue_dictionary.items = {1}
    /\ DOMAIN down_clues.clue_dictionary.items = {}
    /\ Len(outputs[1].lines) = 1
    /\ outputs[1].solutions = <<"A", "B">>

\* A grid with a block, written: the block is a '.' in both layers.
C13_WitnessBlock ==
    /\ Len(outputs) >= 1
    /\ width = 3 /\ height = 3
    /\ outputs[1].solutions[5] = "."
    /\ outputs[1].empty_grid[5] = "."
    /\ outputs[1].solutions[6] = "E"

\* The clues of the reconciled groups as (number, across) pairs, and the order
\* the claims give them: by number, across before down.
WrittenEntries ==
    {<<n, TRUE>> : n \in DOMAIN clue_groups.a.clue_dictionary.items}
        \cup {<<n, FALSE>> : n \in DOMAIN clue_groups.d.clue_dictionary.items}

EntryBefore(e1, e2) == e1[1] < e2[1] \/ (e1[1] = e2[1] /\ e1[2] /\ ~e2[2])

EntryClue(e) == GroupDict(clue_groups, e[2]).items[e[1]]

\* C14: the lines of a written file are the lines of the clues of the two
\* reconciled maps, decoded and placeholder alike, in non-decreasing order of
\* number with the across clue first where the numbers are equal; each is
\* "[label] text" and a NUL, the label being the number string with ',' for
\* every '/' and in lower case.
C14_LinesInEntryOrder ==
    (pc = "decoded" /\ Len(outputs) >= 1 /\ clue_groups.raised = "") =>
        LET o == outputs[Len(outputs)]
        IN  /\ Len(o.lines) = Cardinality(WrittenEntries)
            /\ \A e \in WrittenEntries :
                   LET at == 1 + Cardinality({b \in WrittenEntries : EntryBefore(b, e)})
                       c == EntryClue(e)
                       label == [i \in 1 .. Len(c.number_string) |->
                                    IF c.number_string[i] = "/" THEN ","
                                    ELSE IF c.number_string[i] = "A" THEN "a"
                                    ELSE IF c.number_string[i] = "D" THEN "d"
                                    ELSE IF c.number_string[i] = "U+201" THEN "U+233"
                                    ELSE c.number_string[i]]
                   IN  o.lines[at] = <<"[">> \o label \o <<"]", " ">>
                                        \o c.text_including_enumeration \o <<Nul>>

\* Across "4/12A" and down "12" on the sample grid: 12 is in both maps, the
\* line of the across clue "[4,12a] ..." comes first, then a placeholder of
\* the across map for 12, then the down clue 12.
C14_Witness ==
    /\ pc = "decoded"
    /\ Len(outputs) >= 1
    /\ clue_groups.raised = ""
    /\ DictHas(clue_groups.a.clue_dictionary, 12)
    /\ DictHas(clue_groups.d.clue_dictionary, 12)
    /\ Placeholders(clue_groups.a, across_clues) = {12}
    /\ Len(outputs[1].lines) >= 3
    /\ SubSeq(outputs[1].lines[1], 1, 8) = <<"[", "4", ",", "1", "2", "a", "]", " ">>

\* The across clue "4" with a capital E acute: its line has the small letter.
C14_WitnessAccented ==
    /\ pc = "decoded"
    /\ Len(outputs) >= 1
    /\ clue_groups.raised = ""
    /\ \E k \in 1 .. Len(outputs[1].lines) :
           SubSeq(outputs[1].lines[k], 1, 5) = <<"[", "4", "U+233", "]", " ">>

\* The entries of the grid: the (number, across) pairs its numbering table
\* marks as the start of an across or a down entry.
GridEntries ==
    {<<n, TRUE>> : n \in {m \in DOMAIN clue_numbers : clue_numbers[m].across}}
        \cup {<<n, FALSE>> : n \in {m \in DOMAIN clue_numbers : clue_numbers[m].down}}

\* C15 as stated: a written file holds exactly one line for every entry of
\* the grid and none for a (number, direction) the grid lacks, and its count
\* of clues is that number of lines.
C15_AsStated ==
    (pc = "decoded" /\ Len(outputs) >= 1 /\ clue_groups.raised = "") =>
        LET o == outputs[Len(outputs)]
        IN  /\ WrittenEntries = GridEntries
            /\ Len(o.lines) = Cardinality(GridEntries)
            /\ o.nclues = Len(o.lines)

-----------------------------------------------------------------------------
(* The clue map of a section while its records are read.                   *)

\* The list a pass of the record loop has stored into: the section still
\* being read, or the section that pass ended.
ListStoredInto ==
    IF cursor'.section # << >> THEN cursor'.section.list
    ELSE IF cursor.down_at = -1 THEN cursor'.across.list
    ELSE cursor'.down.list

\* A pass of the record loop that read its record in full.
RecordStored == pc = "records" /\ cursor'.raised = ""

\* The record a pass reads is stored under the first number of its label
\* with its label and its text, whatever was there before; no other key of
\* the map changes.
StoredUnderFirstNumber ==
    RecordStored =>
        LET before == cursor.section.list.clue_dictionary.items
            after == ListStoredInto.clue_dictionary.items
            label == ReadString(data, ReadClueStartCoordinates(data, cursor.i).i)
            text == ReadString(data, label.i + 1)
        IN  \E k \in DOMAIN after :
                /\ after[k].number_string = label.s
                /\ after[k].text_including_enumeration = text.s
                /\ after[k].all_clue_numbers[1][1] = k
                /\ DOMAIN after = DOMAIN before \cup {k}
                /\ \A j \in DOMAIN before \ {k} : after[j] = before[j]

\* A section read to its end holds no more clues than its count byte says.
AtMostDeclared ==
    cursor # << >> =>
        \A section \in {cursor.across, cursor.down} :
            (section # << >> /\ section.raised = "") =>
                DictLen(section.list.clue_dictionary)
                    <= ByteAt(data, section.count_at)

\* C21 as stated: every clue record read is stored under the first entry
\* number of its reference list, a later record of the same number replacing
\* the earlier one without an error, and so a section's map holds at most as
\* many entries as the section declares.
C21_AsStated == [][StoredUnderFirstNumber]_vars /\ []AtMostDeclared

C21_StoreOnly == [][StoredUnderFirstNumber]_vars

\* A second record of the same first number and another text has replaced
\* the first.
C21_Replaced ==
    /\ pc = "decoded"
    /\ DOMAIN across_clues.clue_dictionary.items = {1}
    /\ across_clues.clue_dictionary.items[1].text_including_enumeration
           = <<"L", "a", "s", "t">>
    /\ across_clues.clue_dictionary.items[1].number_string = <<"1", "/", "3">>

-----------------------------------------------------------------------------
(* Claims about the placeholders of a reconciled copy.                      *)

\* "See n", alone or with a direction after it.
SeeTexts(n) ==
    { <<"S", "e", "e", " ">> \o Str(n) \o suffix :
        suffix \in { << >>, <<" ", "a", "c", "r", "o", "s", "s">>,
                     <<" ", "d", "o", "w", "n">> } }

\* C22 as stated: no placeholder comes from the first pair of a clue's
\* reference list, so no placeholder under the number n has the text
\* "See n", with or without a direction, also when a clue's first token
\* resolved to the direction opposite to its section.
C22_AsStated ==
    (pc = "decoded" /\ Len(outputs) >= 1 /\ clue_groups.raised = "") =>
        /\ \A n \in Placeholders(clue_groups.a, across_clues) :
               clue_groups.a.clue_dictionary.items[n].text_including_enumeration
                   \notin SeeTexts(n)
        /\ \A n \in Placeholders(clue_groups.d, down_clues) :
               clue_groups.d.clue_dictionary.items[n].text_including_enumeration
                   \notin SeeTexts(n)

\* "See k across" or "See k down".
SeeWithSuffix(k, across) ==
    <<"S", "e", "e", " ">> \o Str(k)
        \o (IF across THEN <<" ", "a", "c", "r", "o", "s", "s">>
            ELSE <<" ", "d", "o", "w", "n">>)

\* The numbers a clue label of these runs can begin with.
FirstNumbers == 0 .. 99

\* The placeholder under n in the copy of the map of a direction points, by
\* the number and the direction in its text, at a clue of the output whose
\* reference list names it.
PointsAtItsClue(n, across) ==
    LET text == GroupDict(clue_groups, across).items[n].text_including_enumeration
    IN  \A k \in FirstNumbers, named \in BOOLEAN :
            text = SeeWithSuffix(k, named) =>
                /\ DictHas(GroupDict(clue_groups, named), k)
                /\ \E i \in 1 .. Len(GroupDict(clue_groups, named).items[k].all_clue_numbers) :
                       GroupDict(clue_groups, named).items[k].all_clue_numbers[i][1] = n

\* C23 as stated: the direction in a placeholder's text is that of the
\* section holding the clue pointed at ("See 4 across" for the placeholder
\* of across clue "4/12"), so number and direction name a clue of the output.
C23_AsStated ==
    (pc = "decoded" /\ Len(outputs) >= 1 /\ clue_groups.raised = "") =>
        /\ \A n \in Placeholders(clue_groups.a, across_clues) : PointsAtItsClue(n, TRUE)
        /\ \A n \in Placeholders(clue_groups.d, down_clues) : PointsAtItsClue(n, FALSE)
        /\ FourTwelve =>
               clue_groups.d.clue_dictionary.items[12].text_including_enumeration
                   = SeeWithSuffix(4, TRUE)

\* C24 as stated: write_to_puz_file on a puzzle that was decoded reconciles
\* the clue maps without raising, also when a label names, with a direction
\* letter, a number the grid does not hold.
C24_AsStated ==
    (pc = "decoded" /\ Len(outputs) >= 1) =>
        /\ clue_groups.raised = ""
        /\ \A o \in 1 .. Len(outputs) :
               outputs[o].raised \notin {NoSuchClueNumberError, ClueNumberParseError}

-----------------------------------------------------------------------------
(* read_from_ccj loop by loop: one step for every pass of a "while" loop    *)
(* whose end depends on the bytes read (the button labels, the scan for    *)
(* the grid, the filler blocks, the coordinate list, the clue records),    *)
(* and one for the code between two of them.                               *)

\* The body of "while byte_at(d, i) != 0: s, i = read_string(d, i)".
ButtonPass(d, st) ==
    LET s == ReadString(d, st.i)
    IN  IF s.raised # "" THEN Fail(st, s.raised, st.i) ELSE [st EXCEPT !.i = s.i]

\* A slip: the scan for the grid stays where it is.
SeekPassStuck(st) == st

\* The body of "while byte_at(d, i) != 0x3f and byte_at(d, i) != 0x23: i += 1".
SeekPass(st) == [st EXCEPT !.i = st.i + 1]

\* The body of "while skippable_block_of_four(d, i): i += 4".
FillerPass(st) == [st EXCEPT !.i = st.i + 4]

\* Files with no, one or several button labels before the NUL.
ButtonFiles ==
    { <<67, 67>> \o Concat([j \in 1 .. k |-> LengthPrefixed(<<"O", "K">>)])
          \o SubSeq(SoundFile, 6, Len(SoundFile)) : k \in 0 .. 3 }

\* A well-formed file cut short after any of its bytes.
CutFiles == { SubSeq(SoundFile, 1, n) : n \in 2 .. Len(SoundFile) }

\* read_from_ccj has read the file and set i = 2.
InitLoops ==
    /\ pc = "loop_buttons"
    /\ stdout_encoding \in StdoutEncodings
    /\ data \in ButtonFiles \cup CutFiles \cup DamagedFiles \cup RepeatFiles
    /\ cursor = Reading
    /\ start_index = 0
    /\ string_read = << >>
    /\ passes = 0
    /\ args = PlainArgs
    /\ raised = ""
    /\ metadata = NoMetadata
    /\ GridIdle /\ NumberIdle /\ TextIdle /\ PuzzleIdle

\* The most steps of its loops a decode is let take.
MaxPasses == 64

\* What a step leaves: the loop it goes on with, or the exception.
Looping(next) ==
    /\ passes < MaxPasses
    /\ passes' = passes + 1
    /\ raised' = cursor'.raised
    /\ pc' = IF cursor'.raised # "" THEN "loop_failed" ELSE next
    /\ UNCHANGED <<gridVars, tokenVars, textVars, stdout_encoding, puzzleVars, data, string_read,
                   args, metadata>>

\* One test of the button loop: a label read, or, at the NUL, the
\* congratulations and the dimensions.
LoopButtons ==
    /\ pc = "loop_buttons"
    /\ IF cursor.i >= Len(data)
       THEN cursor' = Fail(cursor, IndexError, cursor.i) /\ Looping("loop_buttons")
       ELSE IF ByteAt(data, cursor.i) # 0
       THEN cursor' = ButtonPass(data, cursor) /\ Looping("loop_buttons")
       ELSE /\ cursor' = ReadDimensions(data, ReadCongratulations(data, cursor))
            /\ Looping("loop_seek")
    /\ UNCHANGED start_index

\* One test of the scan for the first '?' or '#'.
LoopSeek ==
    /\ pc = "loop_seek"
    /\ IF cursor.i >= Len(data)
       THEN cursor' = Fail(cursor, IndexError, cursor.i) /\ Looping("loop_seek")
       ELSE IF ByteAt(data, cursor.i) \notin {63, 35}
       THEN cursor' = SeekPass(cursor) /\ Looping("loop_seek")
       ELSE cursor' = cursor /\ Looping("loop_layers")
    /\ UNCHANGED start_index

\* The three layers of the grid ("for y ...: for x ...", width * height
\* passes each) with set_numbers() and the 0x01 between them.
LoopLayers ==
    /\ pc = "loop_layers"
    /\ cursor' = ReadAnswerLayer(data, ExpectOne(data,
                     ReadUnknownLayer(data, NumberGrid(ReadGridLayer(data, cursor)))))
    /\ Looping("loop_filler")
    /\ UNCHANGED start_index

\* One test of the filler loop: a block skipped, or the 0x02 test and
\* "i += 16".
LoopFiller ==
    /\ pc = "loop_filler"
    /\ IF SkippableBlockOfFour(data, cursor.i)
       THEN cursor' = FillerPass(cursor) /\ Looping("loop_filler")
       ELSE /\ cursor' = ExpectMarker(data, [cursor EXCEPT !.marker_at = cursor.i])
            /\ Looping("loop_section")
    /\ UNCHANGED start_index

\* parse_list_of_clues up to its loop; read_clue_start_coordinates is
\* called next, at i.
LoopSection ==
    /\ pc = "loop_section"
    /\ cursor' = StartSection(data, cursor)
    /\ start_index' = cursor'.i
    /\ Looping("loop_coordinates")

\* read_clue_start_coordinates, its index in start_index: the test of the
\* first byte, then one test of "while byte_at(data, i) != 0" a step, each
\* pass reading the two bytes of a pair.
LoopCoordinates ==
    /\ pc = "loop_coordinates"
    /\ LET listed == ByteAt(data, cursor.i) >= 128
           OutOfRange == /\ cursor' = Fail(cursor, IndexError, start_index)
                         /\ UNCHANGED start_index
                         /\ Looping("loop_coordinates")
       IN  IF start_index >= Len(data) THEN OutOfRange
           ELSE IF start_index = cursor.i /\ ~listed
           THEN cursor' = cursor /\ UNCHANGED start_index /\ Looping("loop_record")
           ELSE IF ByteAt(data, start_index) = 0
           THEN /\ cursor' = cursor
                /\ start_index' = start_index + 1
                /\ Looping("loop_record")
           ELSE IF start_index + 1 >= Len(data) THEN OutOfRange
           ELSE /\ cursor' = cursor
                /\ start_index' = start_index + 2
                /\ Looping("loop_coordinates")

\* The rest of one pass of the record loop: the number label, the NUL, the
\* text, the clue stored, the count tested.
LoopRecord ==
    /\ pc = "loop_record"
    /\ cursor' = ReadClueRecord(data, cursor)
    /\ start_index' = cursor'.i
    /\ Looping(IF cursor'.section # << >> THEN "loop_coordinates"
               ELSE IF cursor'.down = << >> THEN "loop_section"
               ELSE "loop_done")

NextLoops ==
    \/ LoopButtons
    \/ LoopSeek
    \/ LoopLayers
    \/ LoopFiller
    \/ LoopSection
    \/ LoopCoordinates
    \/ LoopRecord

\* A step can be taken: every step counts, so none leaves the state as it
\* is, and the loops stand wherever the decode has not ended.
Running == pc \notin {"loop_done", "loop_failed"} /\ passes < MaxPasses

\* The interpreter runs the one thread of read_from_ccj on: while a step can
\* be taken, one is taken (WF_vars(NextLoops), with Running for what
\* ENABLED <<NextLoops>>_vars comes to).
LoopsFairness == []<>(~Running) \/ []<><<NextLoops>>_vars

SpecLoops == InitLoops /\ [][NextLoops]_vars /\ LoopsFairness

\* What the steps leave is what the loops leave when run whole.
LoopsAgree ==
    /\ pc = "loop_seek" =>
           SeekGrid(data, cursor)
               = SeekGrid(data, ReadDimensions(data,
                     ReadCongratulations(data, SkipButtons(data, Reading))))
    /\ pc = "loop_layers" =>
           cursor = SeekGrid(data, ReadDimensions(data,
                        ReadCongratulations(data, SkipButtons(data, Reading))))
    /\ (pc = "loop_section" /\ cursor.across_at = -1) =>
           cursor = ExpectMarker(data, SkipFiller(data,
                        ReadAnswerLayer(data, ExpectOne(data,
                            ReadUnknownLayer(data, NumberGrid(ReadGridLayer(data,
                                SeekGrid(data, ReadDimensions(data,
                                    ReadCongratulations(data,
                                        SkipButtons(data, Reading)))))))))))
    /\ (pc = "loop_record" /\ ByteAt(data, cursor.i) >= 128) =>
           /\ ReadClueStartCoordinates(data, cursor.i).raised = ""
           /\ ReadClueStartCoordinates(data, cursor.i).i = start_index
    /\ (pc = "loop_failed" /\ cursor.section # << >>) =>
           ReadClueRecord(data, [cursor EXCEPT !.raised = ""]).raised = IndexError

\* Where read_from_ccj reads next: the index of read_clue_start_coordinates
\* while it runs, else i.
Position == IF pc \in {"loop_coordinates", "loop_record"} THEN start_index ELSE cursor.i

\* No step that does not raise moves the index back.
NeverBackwards == cursor'.raised = "" => Position' >= Position

\* A step that stays in its loop is a pass of it: the index is further on.
\* So is it after a pass of the record loop.
PassAdvances ==
    /\ (cursor'.raised = "" /\ pc' = pc
          /\ pc \in {"loop_buttons", "loop_seek", "loop_filler", "loop_coordinates"})
           => Position' > Position
    /\ (cursor'.raised = "" /\ pc = "loop_record") => cursor'.i > cursor.i

\* The decode has ended: with the puzzle read, both sections assigned, or
\* with an exception.
DecodeEnded ==
    \/ pc = "loop_done" /\ cursor.raised = ""
                        /\ cursor.across # << >> /\ cursor.down # << >>
    \/ pc = "loop_failed" /\ cursor.raised # ""

\* C25: the index of the decode never moves back, every pass of the button
\* loop, the grid scan, the filler run, the coordinate list and the record
\* loop moves it on, and every decode ends, with the puzzle read or with an
\* exception.
C25_DecodeTerminates ==
    /\ [][NeverBackwards /\ PassAdvances]_vars
    /\ [](passes < MaxPasses)
    /\ <>DecodeEnded

\* A file read to its end through every loop: two button labels, a filler
\* block, a coordinate list, two records in each section.
C25_Witness ==
    /\ pc = "loop_done"
    /\ data \in ButtonFiles
    /\ data[6] # 0
    /\ cursor.i = Len(data)
    /\ cursor.marker_at > cursor.filler_at
    /\ cursor.across.clues_found = 2
    /\ cursor.down.clues_found = 2

\* A file cut short in its coordinate list: the NUL is never found and the
\* index runs out of the buffer.
C25_WitnessNoSentinel ==
    /\ pc = "loop_failed"
    /\ cursor.raised = IndexError
    /\ cursor.section # << >>
    /\ cursor.section.i < Len(data)
    /\ ByteAt(data, cursor.section.i) >= 128
    /\ cursor.i > cursor.section.i
    /\ cursor.i >= Len(data)

=============================================================================
